---- MODULE Spec2Model ----
(***************************************************************************)
(* thaimaturgy: the conversation orchestrator (engine/orchestrator.go),    *)
(* the tool router (engine/tools.go), the dice (engine/dice.go), the       *)
(* session substrate (domain) and the part of the terminal UI that starts  *)
(* and completes turns (tui/model.go).                                     *)
(*                                                                         *)
(* Ten specifications share the module:                                    *)
(*   Spec         one ProcessInput call against a session, the backend's   *)
(*                replies being chosen by the environment;                 *)
(*   SpecTools    sequences of hit-point and inventory calls;              *)
(*   SpecDispatch one Execute call of any name and payload shape;          *)
(*   SpecSheet    sequences of calls on the character sheet and world;     *)
(*   SpecChecks   skill checks and saving throws;                          *)
(*   SpecLogs     appends to the conversation and the event log;           *)
(*   SpecDice     the dice engine with the process-wide generator;         *)
(*   SpecRollers  two seeded Rollers beside the process-wide generator;    *)
(*   SpecMemory   Orchestrator.UpdateMemorySummary;                        *)
(*   SpecTUI      the Bubble Tea Update loop with its background commands. *)
(***************************************************************************)
EXTENDS Integers, Sequences, FiniteSets, Bags, TLC

(***************************************************************************)
(* Bounds of the model.                                                    *)
(***************************************************************************)
\* Go's int is a two's-complement machine word (64 bits on the supported
\* platforms).  The model keeps the wrap-around and scales the word down to
\* IntBits bits, so that the extreme values can be enumerated.
IntBits == 7

\* How many Execute calls a sequence of tool calls applies to a session.
MaxToolSteps == 2

\* How many sessions the UI creates (new campaigns and loaded games), and how
\* many background commands it has outstanding at a time.
MaxSessions == 2
MaxInFlight == 2

(***************************************************************************)
(* Machine integers.                                                       *)
(***************************************************************************)
RECURSIVE Pow2(_)
Pow2(n) == IF n = 0 THEN 1 ELSE 2 * Pow2(n - 1)

MinInt == -Pow2(IntBits - 1)
MaxInt == Pow2(IntBits - 1) - 1

\* The value of an int expression after two's-complement wrap-around.
WrapInt(x) == ((x + Pow2(IntBits - 1)) % Pow2(IntBits)) - Pow2(IntBits - 1)

(***************************************************************************)
(* JSON values as encoding/json decodes them into map[string]any.  A       *)
(* number is a float64; the model carries it in halves (n = 2 * value) so  *)
(* that a fractional value exists and int(...) has something to truncate.  *)
(***************************************************************************)
JNum(halves) == [t |-> "number", n |-> halves, s |-> "", b |-> FALSE, a |-> <<>>]
JStr(str)    == [t |-> "string", n |-> 0, s |-> str, b |-> FALSE, a |-> <<>>]
JBool(bool)  == [t |-> "bool", n |-> 0, s |-> "", b |-> bool, a |-> <<>>]
\* An array, given by its elements.
JList(elems) == [t |-> "array", n |-> 0, s |-> "", b |-> FALSE, a |-> elems]

\* args[key].(float64), args[key].(string): the value and whether the type
\* assertion succeeded.
IsFloat64(args, key)  == key \in DOMAIN args /\ args[key].t = "number"
IsString(args, key)   == key \in DOMAIN args /\ args[key].t = "string"
IsBool(args, key)     == key \in DOMAIN args /\ args[key].t = "bool"
IsList(args, key)     == key \in DOMAIN args /\ args[key].t = "array"
StringOr(args, key, dflt) == IF IsString(args, key) THEN args[key].s ELSE dflt

\* int(f) for a float64 f within the range of int: truncation toward zero.
IntOfFloat(halves) ==
    IF halves >= 0 THEN halves \div 2 ELSE -((-halves) \div 2)

\* The raw argument payload of a tool call: text that json.Unmarshal either
\* rejects or decodes into an object.
MalformedJSON == [valid |-> FALSE, fields |-> <<>>]
JSONObject(f) == [valid |-> TRUE, fields |-> f]


(***************************************************************************)
(* domain: Conversation and EventLog, bounded logs that evict the oldest.  *)
(***************************************************************************)
RoleUser      == "user"
RoleAssistant == "assistant"
RoleSystem    == "system"
RoleTool      == "tool"

\* The last n elements of a sequence: s[len(s)-n:].
\* Mutant: the first n entries are kept.
FirstN(s, n) == SubSeq(s, 1, n)

LastN(s, n) == SubSeq(s, Len(s) - n + 1, Len(s))

\* A domain.Message (timestamps and the generated ID are not modelled).
DomainMessage(role, content) ==
    [Role |-> role, Content |-> content, ToolCallID |-> ""]

NewConversation(maxSize) ==
    [Messages |-> <<>>, MaxSize |-> IF maxSize <= 0 THEN 50 ELSE maxSize]

ConversationAdd(c, msg) ==
    LET appended == Append(c.Messages, msg)
    IN  [c EXCEPT !.Messages =
            IF Len(appended) > c.MaxSize THEN LastN(appended, c.MaxSize)
                                         ELSE appended]

\* Mutant: the player's text is stored under the wrong role.
AddUserMessageAsSystem(c, content) ==
    ConversationAdd(c, DomainMessage(RoleSystem, content))

AddUserMessage(c, content) == ConversationAdd(c, DomainMessage(RoleUser, content))

\* Mutant: the reply is not recorded.
AddAssistantMessageSkipped(c, content) == c

AddAssistantMessage(c, content) ==
    ConversationAdd(c, DomainMessage(RoleAssistant, content))

NewEventLog(maxSize) ==
    [Events |-> <<>>, MaxSize |-> IF maxSize <= 0 THEN 100 ELSE maxSize]

EventLogAdd(el, event) ==
    LET appended == Append(el.Events, event)
    IN  [el EXCEPT !.Events =
            IF Len(appended) > el.MaxSize THEN LastN(appended, el.MaxSize)
                                          ELSE appended]

(***************************************************************************)
(* domain: events.  An event is its kind and its structured payload; the   *)
(* rendered message repeats the payload and is left out.                   *)
(***************************************************************************)
EventData(type, str, str2, a, b, c, rolls, flag) ==
    [Type |-> type, Str |-> str, Str2 |-> str2, A |-> a, B |-> b, C |-> c,
     Rolls |-> rolls, Flag |-> flag]

Event(type, str, a, b, c) == EventData(type, str, "", a, b, c, <<>>, FALSE)

EventHPChange(delta, reason, currentHP, maxHP) ==
    Event("hp_change", reason, delta, currentHP, maxHP)

EventItemAdd(item, quantity) == Event("item_add", item, quantity, 0, 0)

EventItemRemove(item, quantity) == Event("item_remove", item, quantity, 0, 0)

EventError(message) == Event("error", "ERROR: " \o message, 0, 0, 0)

EventDiceRoll(notation, rolls, total, modifier) ==
    EventData("dice_roll", notation, "", total, modifier, 0, rolls, FALSE)

EventConditionAdd(condition) == Event("condition_add", condition, 0, 0, 0)

EventConditionRemove(condition) ==
    Event("condition_remove", condition, 0, 0, 0)

EventQuestAdd(questName) == Event("quest_add", questName, 0, 0, 0)

EventQuestUpdate(questName, status) ==
    EventData("quest_update", questName, status, 0, 0, 0, <<>>, FALSE)

EventLocationChange(location) == Event("location_change", location, 0, 0, 0)

EventGoldChange(delta, reason, total) ==
    Event("gold_change", reason, delta, total, 0)

EventXPGain(amount, total) == Event("xp_gain", "", amount, total, 0)

EventSkillCheck(skill, dc, roll, bonus, success) ==
    EventData("skill_check", skill, "", dc, roll, bonus, <<>>, success)

EventSavingThrow(ability, dc, roll, bonus, success) ==
    EventData("saving_throw", ability, "", dc, roll, bonus, <<>>, success)

(***************************************************************************)
(* domain: Character.                                                      *)
(***************************************************************************)
InventoryItem(name, quantity) == [Name |-> name, Quantity |-> quantity]

\* The index of the first inventory entry with the given name, 0 if none.
ItemIndex(inv, name) ==
    IF \E i \in 1..Len(inv) : inv[i].Name = name
    THEN CHOOSE i \in 1..Len(inv) :
            /\ inv[i].Name = name
            /\ \A j \in 1..(i - 1) : inv[j].Name # name
    ELSE 0

AddItem(c, item) ==
    LET i == ItemIndex(c.Inventory, item.Name)
    IN  IF i # 0
        THEN [c EXCEPT !.Inventory[i].Quantity = WrapInt(@ + item.Quantity)]
        ELSE [c EXCEPT !.Inventory = Append(@, item)]

\* RemoveItem returns the character and whether the item was found.
RemoveItem(c, name, quantity) ==
    LET i == ItemIndex(c.Inventory, name)
    IN  IF i = 0 THEN [char |-> c, found |-> FALSE]
        ELSE IF c.Inventory[i].Quantity <= quantity
        THEN [char |-> [c EXCEPT !.Inventory =
                            SubSeq(@, 1, i - 1) \o SubSeq(@, i + 1, Len(@))],
              found |-> TRUE]
        ELSE [char |-> [c EXCEPT !.Inventory[i].Quantity = WrapInt(@ - quantity)],
              found |-> TRUE]

TakeDamage(c, damage) ==
    IF c.TempHP > 0 /\ damage <= c.TempHP
    THEN [c EXCEPT !.TempHP = WrapInt(@ - damage)]
    ELSE LET rest == IF c.TempHP > 0 THEN WrapInt(damage - c.TempHP) ELSE damage
             hp   == WrapInt(c.CurrentHP - rest)
         IN  [c EXCEPT !.TempHP = IF c.TempHP > 0 THEN 0 ELSE @,
                       !.CurrentHP = IF hp < 0 THEN 0 ELSE hp]

Heal(c, amount) ==
    LET hp == WrapInt(c.CurrentHP + amount)
    IN  [c EXCEPT !.CurrentHP = IF hp > c.MaxHP THEN c.MaxHP ELSE hp]

\* Go's integer division truncates toward zero (b > 0 here).
GoDiv(a, b) == IF a >= 0 THEN a \div b ELSE -((-a) \div b)

AbilityNames == {"STR", "DEX", "CON", "INT", "WIS", "CHA"}

\* AbilityScores as a function from the ability to its score.
AbilityScores(str, dex, con, int, wis, cha) ==
    [STR |-> str, DEX |-> dex, CON |-> con, INT |-> int, WIS |-> wis,
     CHA |-> cha]

Modifier(score) == GoDiv(WrapInt(score - 10), 2)

Skill(name, ability) ==
    [Name |-> name, Ability |-> ability, Proficient |-> FALSE,
     Expert |-> FALSE]

DefaultSkills ==
    << Skill("Acrobatics", "DEX"), Skill("Animal Handling", "WIS"),
       Skill("Arcana", "INT"), Skill("Athletics", "STR"),
       Skill("Deception", "CHA"), Skill("History", "INT"),
       Skill("Insight", "WIS"), Skill("Intimidation", "CHA"),
       Skill("Investigation", "INT"), Skill("Medicine", "WIS"),
       Skill("Nature", "INT"), Skill("Perception", "WIS"),
       Skill("Performance", "CHA"), Skill("Persuasion", "CHA"),
       Skill("Religion", "INT"), Skill("Sleight of Hand", "DEX"),
       Skill("Stealth", "DEX"), Skill("Survival", "WIS") >>

\* The index of the first skill with the given name, 0 if none.
SkillIndex(skills, name) ==
    IF \E i \in 1..Len(skills) : skills[i].Name = name
    THEN CHOOSE i \in 1..Len(skills) :
            /\ skills[i].Name = name
            /\ \A j \in 1..(i - 1) : skills[j].Name # name
    ELSE 0

SkillBonus(c, skillName) ==
    LET i == SkillIndex(c.Skills, skillName)
    IN  IF i = 0 THEN 0
        ELSE LET base == Modifier(c.Abilities[c.Skills[i].Ability])
             IN  IF c.Skills[i].Expert
                 THEN WrapInt(base + WrapInt(c.ProficiencyBonus * 2))
                 ELSE IF c.Skills[i].Proficient
                 THEN WrapInt(base + c.ProficiencyBonus)
                 ELSE base

\* Mutant: the condition is appended without looking for it.
AddConditionAgain(c, cond) == [c EXCEPT !.Conditions = Append(@, cond)]

AddCondition(c, cond) ==
    IF \E i \in 1..Len(c.Conditions) : c.Conditions[i] = cond
    THEN c
    ELSE [c EXCEPT !.Conditions = Append(@, cond)]

\* RemoveCondition drops the first occurrence only.
RemoveCondition(c, cond) ==
    IF \E i \in 1..Len(c.Conditions) : c.Conditions[i] = cond
    THEN LET i == CHOOSE k \in 1..Len(c.Conditions) :
                     /\ c.Conditions[k] = cond
                     /\ \A j \in 1..(k - 1) : c.Conditions[j] # cond
         IN  [c EXCEPT !.Conditions =
                 SubSeq(@, 1, i - 1) \o SubSeq(@, i + 1, Len(@))]
    ELSE c

\* A character sheet with the fields the tools and the prompt touch; what
\* is not given is as NewCharacter sets it.
Character(maxHP, currentHP, tempHP, inventory) ==
    [MaxHP |-> maxHP, CurrentHP |-> currentHP, TempHP |-> tempHP,
     Gold |-> 0, XP |-> 0, Inventory |-> inventory,
     Abilities |-> AbilityScores(10, 10, 10, 10, 10, 10),
     ProficiencyBonus |-> 2,
     Skills |-> DefaultSkills,
     Conditions |-> <<>>]

(***************************************************************************)
(* domain: GameState and GameSession.                                      *)
(***************************************************************************)
Location(name, description, exits) ==
    [Name |-> name, Description |-> description, Exits |-> exits]

Quest(id, name, description, status) ==
    [ID |-> id, Name |-> name, Description |-> description,
     Status |-> status]

NewWorldState ==
    [CurrentLocation |->
         Location("Unknown", "You find yourself in an unfamiliar place...",
                  <<>>),
     Quests |-> <<>>,
     MemorySummary |-> ""]

SetLocation(w, loc) == [w EXCEPT !.CurrentLocation = loc]

AddQuest(w, quest) == [w EXCEPT !.Quests = Append(@, quest)]

\* Mutant: the quest is never found.
UpdateQuestStatusNeverFound(w, questID, status) ==
    [world |-> w, found |-> FALSE]

\* UpdateQuestStatus returns the world and whether the quest was found.
UpdateQuestStatus(w, questID, status) ==
    IF \E i \in 1..Len(w.Quests) : w.Quests[i].ID = questID
    THEN LET i == CHOOSE k \in 1..Len(w.Quests) :
                     /\ w.Quests[k].ID = questID
                     /\ \A j \in 1..(k - 1) : w.Quests[j].ID # questID
         IN  [world |-> [w EXCEPT !.Quests[i].Status = status],
              found |-> TRUE]
    ELSE [world |-> w, found |-> FALSE]

NewGameState(character) ==
    [Character |-> character,
     World |-> NewWorldState,
     Conversation |-> NewConversation(50),
     EventLog |-> NewEventLog(100)]

NewGameSession(state) == [State |-> state, IsModified |-> FALSE]

\* Mutant: the flag is left as it was.
MarkModifiedNot(gs) == gs

MarkModified(gs) == [gs EXCEPT !.IsModified = TRUE]

(***************************************************************************)
(* engine: the dice.  A notation is text; the model reads it character by  *)
(* character.  The generator is the sequence of its next raw draws, from   *)
(* which Intn(n) takes the remainder modulo n.                             *)
(***************************************************************************)
VARIABLE diceRng

\* How many dice a notation drawn by the specifications throws at most.
MaxDice == 2

\* The notations the specifications draw, character by character.
KnownNotations ==
    { <<"1", "d", "2", "0">>, <<"2", "d", "6", "+", "1">>,
      <<" ", "D", "8", "-", "1">>, <<"d">>, <<"0", "d", "6">>,
      <<"f", "i", "r", "e">> }

RECURSIVE Join(_)
Join(chars) == IF chars = <<>> THEN "" ELSE Head(chars) \o Join(Tail(chars))

\* The characters of a string the specifications draw.
Chars(str) ==
    IF \E cs \in KnownNotations : Join(cs) = str
    THEN CHOOSE cs \in KnownNotations : Join(cs) = str
    ELSE <<"?">>

DigitChars == {"0", "1", "2", "3", "4", "5", "6", "7", "8", "9"}

DigitValue(ch) ==
    CASE ch = "0" -> 0 [] ch = "1" -> 1 [] ch = "2" -> 2 [] ch = "3" -> 3
      [] ch = "4" -> 4 [] ch = "5" -> 5 [] ch = "6" -> 6 [] ch = "7" -> 7
      [] ch = "8" -> 8 [] ch = "9" -> 9

\* strings.ToLower, for the letters a notation may hold.
LowerChar(ch) == IF ch = "D" THEN "d" ELSE ch

RECURSIVE TrimLeft(_)
TrimLeft(chars) ==
    IF chars # <<>> /\ Head(chars) = " " THEN TrimLeft(Tail(chars)) ELSE chars

RECURSIVE TrimRight(_)
TrimRight(chars) ==
    IF chars # <<>> /\ chars[Len(chars)] = " "
    THEN TrimRight(SubSeq(chars, 1, Len(chars) - 1))
    ELSE chars

\* strings.ToLower(strings.TrimSpace(notation))
Normalised(chars) ==
    LET t == TrimRight(TrimLeft(chars))
    IN  [i \in 1..Len(t) |-> LowerChar(t[i])]

\* How many digits chars starts with.
RECURSIVE DigitPrefix(_)
DigitPrefix(chars) ==
    IF chars # <<>> /\ Head(chars) \in DigitChars
    THEN 1 + DigitPrefix(Tail(chars))
    ELSE 0

\* The value strconv.Atoi gives a run of digits that is in range.
RECURSIVE DigitsValue(_)
DigitsValue(ds) ==
    IF ds = <<>> THEN 0
    ELSE 10 * DigitsValue(SubSeq(ds, 1, Len(ds) - 1)) + DigitValue(ds[Len(ds)])

DiceRoll(notation, numDice, diceSides, modifier) ==
    [Notation |-> notation, NumDice |-> numDice, DiceSides |-> diceSides,
     Modifier |-> modifier, Rolls |-> <<>>, Total |-> 0]

ParseFailure(err) == [ok |-> FALSE, err |-> err, roll |-> DiceRoll("", 0, 0, 0)]

\* Mutant: a notation of no dice is accepted.
CheckLimitsFromZero(n, numDice, diceSides, modifier) ==
    IF numDice < 0 \/ numDice > 100
    THEN ParseFailure("number of dice must be between 1 and 100")
    ELSE IF diceSides < 1 \/ diceSides > 1000
    THEN ParseFailure("dice sides must be between 1 and 1000")
    ELSE [ok |-> TRUE, err |-> "",
          roll |-> DiceRoll(Join(n), numDice, diceSides, modifier)]

\* The limits ParseDice puts on a notation that matched.
CheckLimits(n, numDice, diceSides, modifier) ==
    IF numDice < 1 \/ numDice > 100
    THEN ParseFailure("number of dice must be between 1 and 100")
    ELSE IF diceSides < 1 \/ diceSides > 1000
    THEN ParseFailure("dice sides must be between 1 and 1000")
    ELSE [ok |-> TRUE, err |-> "",
          roll |-> DiceRoll(Join(n), numDice, diceSides, modifier)]

NoMatch(n) ==
    ParseFailure("invalid dice notation: " \o Join(n)
                     \o " (expected format: NdM or NdM+K)")

\* The digits of the largest int and of the smallest one without its sign.
MaxIntDigits ==
    << "9", "2", "2", "3", "3", "7", "2", "0", "3", "6",
       "8", "5", "4", "7", "7", "5", "8", "0", "7" >>

MinIntDigits ==
    << "9", "2", "2", "3", "3", "7", "2", "0", "3", "6",
       "8", "5", "4", "7", "7", "5", "8", "0", "8" >>

RECURSIVE StripZeros(_)
StripZeros(ds) ==
    IF ds # <<>> /\ Head(ds) = "0" THEN StripZeros(Tail(ds)) ELSE ds

\* a > b for two runs of digits of the same length.
RECURSIVE DigitsGreater(_, _)
DigitsGreater(a, b) ==
    IF a = <<>> THEN FALSE
    ELSE IF Head(a) # Head(b) THEN DigitValue(Head(a)) > DigitValue(Head(b))
    ELSE DigitsGreater(Tail(a), Tail(b))

\* Whether strconv.Atoi converts the digits (of a negative number or not)
\* without a range error.
AtoiInRange(ds, negative) ==
    \/ Len(StripZeros(ds)) < Len(MaxIntDigits)
    \/ /\ Len(StripZeros(ds)) = Len(MaxIntDigits)
       /\ ~DigitsGreater(StripZeros(ds),
                         IF negative THEN MinIntDigits ELSE MaxIntDigits)

\* The three conversions of ParseDice on the groups of a match, in the
\* code's order, then the limits.
ConvertMatches(n, dice, sides, rest) ==
    IF dice # <<>> /\ ~AtoiInRange(dice, FALSE)
    THEN ParseFailure("invalid number of dice: " \o Join(dice))
    ELSE IF ~AtoiInRange(sides, FALSE)
    THEN ParseFailure("invalid dice sides: " \o Join(sides))
    ELSE IF rest # <<>> /\ ~AtoiInRange(Tail(rest), Head(rest) = "-")
    THEN ParseFailure("invalid modifier: " \o Join(rest))
    ELSE CheckLimits(n,
             IF dice = <<>> THEN 1 ELSE DigitsValue(dice),
             DigitsValue(sides),
             IF rest = <<>> THEN 0
             ELSE IF Head(rest) = "-" THEN -DigitsValue(Tail(rest))
             ELSE DigitsValue(Tail(rest)))

\* ([+-]\d+)?$ after p1 digits, the letter d and p2 digits.
MatchModifier(n, p1, p2) ==
    LET rest == SubSeq(n, p1 + p2 + 2, Len(n))
    IN  IF p2 = 0 THEN NoMatch(n)
        ELSE IF \/ rest = <<>>
                \/ /\ Head(rest) \in {"+", "-"}
                   /\ Len(rest) >= 2
                   /\ DigitPrefix(Tail(rest)) = Len(rest) - 1
        THEN ConvertMatches(n, SubSeq(n, 1, p1),
                            SubSeq(n, p1 + 2, p1 + p2 + 1), rest)
        ELSE NoMatch(n)

\* d(\d+) after p1 digits.
MatchSides(n, p1) ==
    IF p1 < Len(n) /\ n[p1 + 1] = "d"
    THEN MatchModifier(n, p1, DigitPrefix(SubSeq(n, p1 + 2, Len(n))))
    ELSE NoMatch(n)

\* diceRegex, ^(\d+)?d(\d+)([+-]\d+)?$, on a normalised notation, and the
\* conversions and limits that follow a match.
MatchDice(n) == MatchSides(n, DigitPrefix(n))

ParseDice(chars) == MatchDice(Normalised(chars))

RECURSIVE SumSeq(_)
SumSeq(xs) == IF xs = <<>> THEN 0 ELSE Head(xs) + SumSeq(Tail(xs))

\* DiceRoll.Roll with the generator's next draws.
RollWith(dr, draws) ==
    LET rolls == [i \in 1..dr.NumDice |->
                     (draws[((i - 1) % Len(draws)) + 1] % dr.DiceSides) + 1]
    IN  [dr EXCEPT !.Rolls = rolls,
                   !.Total = SumSeq(rolls) + dr.Modifier]

\* DiceRoll.String
DiceString(dr) ==
    ToString(dr.NumDice) \o "d" \o ToString(dr.DiceSides)
        \o (IF dr.Modifier > 0 THEN "+" \o ToString(dr.Modifier)
            ELSE IF dr.Modifier < 0 THEN ToString(dr.Modifier)
            ELSE "")

RECURSIVE JoinPlus(_)
JoinPlus(rolls) ==
    IF Len(rolls) = 0 THEN ""
    ELSE IF Len(rolls) = 1 THEN ToString(rolls[1])
    ELSE ToString(Head(rolls)) \o "+" \o JoinPlus(Tail(rolls))

\* DiceRoll.ResultString
ResultString(dr) ==
    "[" \o JoinPlus(dr.Rolls) \o "]"
        \o (IF dr.Modifier > 0 THEN "+" \o ToString(dr.Modifier)
            ELSE IF dr.Modifier < 0 THEN ToString(dr.Modifier)
            ELSE "")
        \o " = " \o ToString(dr.Total)

IsCriticalHit(dr) ==
    dr.NumDice = 1 /\ dr.DiceSides = 20 /\ Len(dr.Rolls) > 0 /\ dr.Rolls[1] = 20

IsCriticalFail(dr) ==
    dr.NumDice = 1 /\ dr.DiceSides = 20 /\ Len(dr.Rolls) > 0 /\ dr.Rolls[1] = 1

\* RollDice: parse, then roll.
RollDice(chars, draws) ==
    LET p == ParseDice(chars)
    IN  IF p.ok THEN [p EXCEPT !.roll = RollWith(@, draws)] ELSE p

\* Roll(numDice, diceSides, modifier)
Roll(numDice, diceSides, modifier, draws) ==
    RollWith(DiceRoll(DiceString(DiceRoll("", numDice, diceSides, modifier)),
                      numDice, diceSides, modifier),
             draws)

\* Roll(1, 20, 0)
RollD20(draws) == RollWith(DiceRoll("1d20", 1, 20, 0), draws)

\* How many dice RollAbilityScore throws.
AbilityDice == 4

\* The scan of RollAbilityScore for the die to drop: rolls from position i
\* on, minIdx being the choice so far.
RECURSIVE MinIdx(_, _, _)
MinIdx(rolls, i, minIdx) ==
    IF i > Len(rolls) THEN minIdx
    ELSE MinIdx(rolls, i + 1, IF rolls[i] < rolls[minIdx] THEN i ELSE minIdx)

\* rolls without the entry at position k.
DropAt(rolls, k) ==
    [i \in 1..(Len(rolls) - 1) |-> IF i < k THEN rolls[i] ELSE rolls[i + 1]]

\* The four dice RollAbilityScore throws.
AbilityRolls(draws) ==
    [i \in 1..AbilityDice |-> (draws[((i - 1) % Len(draws)) + 1] % 6) + 1]

\* Mutant: the first die is dropped whatever it shows.
KeptRollsAfterFirst(rolls) == DropAt(rolls, 1)

KeptRolls(rolls) == DropAt(rolls, MinIdx(rolls, 1, 1))

RollAbilityScore(draws) ==
    [Notation |-> "4d6 drop lowest", NumDice |-> 4, DiceSides |-> 6,
     Modifier |-> 0, Rolls |-> KeptRolls(AbilityRolls(draws)),
     Total |-> SumSeq(KeptRolls(AbilityRolls(draws)))]

(***************************************************************************)
(* engine: the tool router.  A handler takes the call id, the decoded      *)
(* arguments and the session, and returns the session it leaves behind     *)
(* with the types.ToolResult it answers.                                   *)
(***************************************************************************)
\* Mutant: the result does not carry the id of the call.
ToolResultWithoutID(id, content, error) ==
    [ToolCallID |-> "", Content |-> content, Error |-> error]

ToolResult(id, content, error) ==
    [ToolCallID |-> id, Content |-> content, Error |-> error]

\* Mutant: whatever a handler answers, the session is marked modified.
OutcomeMarked(gs, result) == [gs |-> MarkModified(gs), result |-> result]

Outcome(gs, result) == [gs |-> gs, result |-> result]

\* Mutant: the event is recorded twice.
LogEventTwice(gs, event) ==
    [gs EXCEPT !.State.EventLog = EventLogAdd(EventLogAdd(@, event), event)]

\* session.State.EventLog.Add(event)
LogEvent(gs, event) ==
    [gs EXCEPT !.State.EventLog = EventLogAdd(@, event)]

updateHP(id, args, gs) ==
    IF ~IsFloat64(args, "delta")
    THEN Outcome(gs, ToolResult(id, "", "Missing or invalid 'delta' parameter"))
    ELSE
      LET delta  == IntOfFloat(args["delta"].n)
          given  == StringOr(args, "reason", "")
          reason == IF given = "" THEN "unknown" ELSE given
          char   == IF delta < 0
                    THEN TakeDamage(gs.State.Character, WrapInt(-delta))
                    ELSE Heal(gs.State.Character, delta)
          gs1    == MarkModified([gs EXCEPT !.State.Character = char])
          gs2    == LogEvent(gs1,
                        EventHPChange(delta, reason, char.CurrentHP, char.MaxHP))
      IN  Outcome(gs2, ToolResult(id,
              "HP changed by " \o ToString(delta) \o " (" \o reason
                  \o "). Current: " \o ToString(char.CurrentHP) \o "/"
                  \o ToString(char.MaxHP),
              ""))

\* quantity := 1; if q, ok := args["quantity"].(float64); ok { quantity = int(q) }
QuantityArg(args) ==
    IF IsFloat64(args, "quantity") THEN IntOfFloat(args["quantity"].n) ELSE 1

addItem(id, args, gs) ==
    IF ~IsString(args, "item")
    THEN Outcome(gs, ToolResult(id, "", "Missing or invalid 'item' parameter"))
    ELSE
      LET item     == args["item"].s
          quantity == QuantityArg(args)
          gs1 == MarkModified([gs EXCEPT !.State.Character =
                                   AddItem(@, InventoryItem(item, quantity))])
          gs2 == LogEvent(gs1, EventItemAdd(item, quantity))
      IN  Outcome(gs2, ToolResult(id,
              "Added " \o ToString(quantity) \o "x " \o item \o " to inventory",
              ""))

removeItem(id, args, gs) ==
    IF ~IsString(args, "item")
    THEN Outcome(gs, ToolResult(id, "", "Missing or invalid 'item' parameter"))
    ELSE
      LET item     == args["item"].s
          quantity == QuantityArg(args)
          removed  == RemoveItem(gs.State.Character, item, quantity)
      IN  IF ~removed.found
          THEN Outcome(gs, ToolResult(id, "",
                   "Item '" \o item \o "' not found in inventory"))
          ELSE
            LET gs1 == MarkModified([gs EXCEPT !.State.Character = removed.char])
                gs2 == LogEvent(gs1, EventItemRemove(item, quantity))
            IN  Outcome(gs2, ToolResult(id,
                    "Removed " \o ToString(quantity) \o "x " \o item
                        \o " from inventory",
                    ""))

rollDice(id, args, gs, draws) ==
    IF ~IsString(args, "notation")
    THEN Outcome(gs, ToolResult(id, "", "Missing or invalid 'notation' parameter"))
    ELSE
      LET reason == StringOr(args, "reason", "")
          rolled == RollDice(Chars(args["notation"].s), draws)
          roll   == rolled.roll
          message == "Rolled " \o DiceString(roll) \o ": " \o ResultString(roll)
                        \o (IF IsCriticalHit(roll) THEN " [CRITICAL HIT!]"
                            ELSE IF IsCriticalFail(roll) THEN " [CRITICAL FAIL!]"
                            ELSE "")
          event  == [EventDiceRoll(roll.Notation, roll.Rolls, roll.Total,
                                   roll.Modifier) EXCEPT !.Str2 = reason]
      IN  IF ~rolled.ok
          THEN Outcome(gs, ToolResult(id, "", rolled.err))
          ELSE Outcome(LogEvent(gs, event), ToolResult(id, message, ""))

setCondition(id, args, gs) ==
    IF ~IsString(args, "condition")
    THEN Outcome(gs, ToolResult(id, "", "Missing or invalid 'condition' parameter"))
    ELSE IF ~IsBool(args, "add")
    THEN Outcome(gs, ToolResult(id, "", "Missing or invalid 'add' parameter"))
    ELSE
      LET cond == args["condition"].s
          add  == args["add"].b
          gs1  == IF add
                  THEN LogEvent([gs EXCEPT !.State.Character = AddCondition(@, cond)],
                                EventConditionAdd(cond))
                  ELSE LogEvent([gs EXCEPT !.State.Character = RemoveCondition(@, cond)],
                                EventConditionRemove(cond))
          action == IF add THEN "added" ELSE "removed"
      IN  Outcome(MarkModified(gs1),
                  ToolResult(id, "Condition '" \o cond \o "' " \o action, ""))

updateGold(id, args, gs) ==
    IF ~IsFloat64(args, "delta")
    THEN Outcome(gs, ToolResult(id, "", "Missing or invalid 'delta' parameter"))
    ELSE
      LET delta  == IntOfFloat(args["delta"].n)
          given  == StringOr(args, "reason", "")
          reason == IF given = "" THEN "transaction" ELSE given
          sum    == WrapInt(gs.State.Character.Gold + delta)
          gold   == IF sum < 0 THEN 0 ELSE sum
          gs1    == MarkModified([gs EXCEPT !.State.Character.Gold = gold])
          gs2    == LogEvent(gs1, EventGoldChange(delta, reason, gold))
      IN  Outcome(gs2, ToolResult(id,
              "Gold changed by " \o ToString(delta) \o " (" \o reason
                  \o "). Total: " \o ToString(gold),
              ""))

awardXP(id, args, gs) ==
    IF ~IsFloat64(args, "amount")
    THEN Outcome(gs, ToolResult(id, "", "Missing or invalid 'amount' parameter"))
    ELSE
      LET amount == IntOfFloat(args["amount"].n)
          reason == StringOr(args, "reason", "")
          xp     == WrapInt(gs.State.Character.XP + amount)
          gs1    == MarkModified([gs EXCEPT !.State.Character.XP = xp])
          gs2    == LogEvent(gs1, [EventXPGain(amount, xp) EXCEPT !.Str2 = reason])
      IN  Outcome(gs2, ToolResult(id,
              "Awarded " \o ToString(amount) \o " XP. Total: " \o ToString(xp),
              ""))

\* The strings of a decoded array, in order; the other elements are skipped.
RECURSIVE StringsOf(_)
StringsOf(elems) ==
    IF elems = <<>> THEN <<>>
    ELSE IF Head(elems).t = "string"
    THEN <<Head(elems).s>> \o StringsOf(Tail(elems))
    ELSE StringsOf(Tail(elems))

setLocation(id, args, gs) ==
    IF ~IsString(args, "name")
    THEN Outcome(gs, ToolResult(id, "", "Missing or invalid 'name' parameter"))
    ELSE
      LET name        == args["name"].s
          description == StringOr(args, "description", "")
          exits       == IF IsList(args, "exits")
                         THEN StringsOf(args["exits"].a) ELSE <<>>
          loc == Location(name, description, exits)
          gs1 == MarkModified([gs EXCEPT !.State.World = SetLocation(@, loc)])
          gs2 == LogEvent(gs1, EventLocationChange(name))
      IN  Outcome(gs2, ToolResult(id, "Moved to: " \o name, ""))

addQuest(id, args, gs) ==
    IF ~IsString(args, "id")
    THEN Outcome(gs, ToolResult(id, "", "Missing or invalid 'id' parameter"))
    ELSE IF ~IsString(args, "name")
    THEN Outcome(gs, ToolResult(id, "", "Missing or invalid 'name' parameter"))
    ELSE
      LET questID == args["id"].s
          name    == args["name"].s
          given   == StringOr(args, "status", "")
          status  == IF given = "" THEN "active" ELSE given
          description == StringOr(args, "description", "")
          updated == UpdateQuestStatus(gs.State.World, questID, status)
          gs1 == IF updated.found
                 THEN LogEvent([gs EXCEPT !.State.World = updated.world],
                               EventQuestUpdate(name, status))
                 ELSE LogEvent([gs EXCEPT !.State.World =
                                   AddQuest(@, Quest(questID, name, description,
                                                     status))],
                               EventQuestAdd(name))
      IN  Outcome(MarkModified(gs1),
                  ToolResult(id, "Quest '" \o name \o "' set to '" \o status
                                     \o "'", ""))

\* " [NATURAL 20!]", " [NATURAL 1!]" or nothing after a d20.
NaturalSuffix(roll) ==
    IF IsCriticalHit(roll) THEN " [NATURAL 20!]"
    ELSE IF IsCriticalFail(roll) THEN " [NATURAL 1!]"
    ELSE ""

skillCheck(id, args, gs, draws) ==
    IF ~IsString(args, "skill")
    THEN Outcome(gs, ToolResult(id, "", "Missing or invalid 'skill' parameter"))
    ELSE IF ~IsFloat64(args, "dc")
    THEN Outcome(gs, ToolResult(id, "", "Missing or invalid 'dc' parameter"))
    ELSE
      LET skill   == args["skill"].s
          dc      == IntOfFloat(args["dc"].n)
          bonus   == SkillBonus(gs.State.Character, skill)
          roll    == RollD20(draws)
          total   == WrapInt(roll.Total + bonus)
          success == total >= dc
          gs1 == LogEvent(gs, EventSkillCheck(skill, dc, roll.Rolls[1], bonus,
                                              success))
      IN  Outcome(gs1, ToolResult(id,
              skill \o " check (DC " \o ToString(dc) \o "): "
                  \o ToString(roll.Rolls[1]) \o " + " \o ToString(bonus)
                  \o " = " \o ToString(total) \o " ["
                  \o (IF success THEN "SUCCESS" ELSE "FAILED") \o "]"
                  \o NaturalSuffix(roll),
              ""))

\* strings.ToUpper, for the ability names the specifications draw.
ToUpper(str) ==
    CASE str = "str" -> "STR" [] str = "dex" -> "DEX" [] str = "con" -> "CON"
      [] str = "int" -> "INT" [] str = "wis" -> "WIS" [] str = "cha" -> "CHA"
      [] str = "luck" -> "LUCK"
      [] OTHER -> str

savingThrow(id, args, gs, draws) ==
    IF ~IsString(args, "ability")
    THEN Outcome(gs, ToolResult(id, "", "Missing or invalid 'ability' parameter"))
    ELSE IF ~IsFloat64(args, "dc")
    THEN Outcome(gs, ToolResult(id, "", "Missing or invalid 'dc' parameter"))
    ELSE
      LET dc         == IntOfFloat(args["dc"].n)
          abilityStr == ToUpper(args["ability"].s)
      IN  IF abilityStr \notin AbilityNames
          THEN Outcome(gs, ToolResult(id, "", "Invalid ability: " \o abilityStr))
          ELSE
            LET bonus   == Modifier(gs.State.Character.Abilities[abilityStr])
                roll    == RollD20(draws)
                total   == WrapInt(roll.Total + bonus)
                success == total >= dc
                gs1 == LogEvent(gs, EventSavingThrow(abilityStr, dc,
                                        roll.Rolls[1], bonus, success))
            IN  Outcome(gs1, ToolResult(id,
                    abilityStr \o " save (DC " \o ToString(dc) \o "): "
                        \o ToString(roll.Rolls[1]) \o " + " \o ToString(bonus)
                        \o " = " \o ToString(total) \o " ["
                        \o (IF success THEN "SUCCESS" ELSE "FAILED") \o "]"
                        \o NaturalSuffix(roll),
                    ""))

\* Mutant: the catalogue without its last tool.
AvailableToolsWithoutSavingThrow ==
    << "roll_dice", "update_hp", "add_item", "remove_item", "set_condition",
       "update_gold", "award_xp", "set_location", "add_quest", "skill_check" >>

\* The names of the tools in AvailableTools, in order.
AvailableTools ==
    << "roll_dice", "update_hp", "add_item", "remove_item", "set_condition",
       "update_gold", "award_xp", "set_location", "add_quest", "skill_check",
       "saving_throw" >>

\* A types.ToolCall.
ToolCall(id, name, arguments) ==
    [ID |-> id, Name |-> name, Arguments |-> arguments]

\* ToolRouter.Execute: the decoding of the arguments and the dispatch by
\* name.  The handlers that throw dice take the generator's next draws.
Execute(call, gs) ==
    IF ~call.Arguments.valid
    THEN Outcome(gs, ToolResult(call.ID, "",
             "Failed to parse arguments: invalid character"))
    ELSE
      LET args == call.Arguments.fields
      IN  CASE call.Name = "roll_dice"     -> rollDice(call.ID, args, gs, diceRng)
            [] call.Name = "update_hp"     -> updateHP(call.ID, args, gs)
            [] call.Name = "add_item"      -> addItem(call.ID, args, gs)
            [] call.Name = "remove_item"   -> removeItem(call.ID, args, gs)
            [] call.Name = "set_condition" -> setCondition(call.ID, args, gs)
            [] call.Name = "update_gold"   -> updateGold(call.ID, args, gs)
            [] call.Name = "award_xp"      -> awardXP(call.ID, args, gs)
            [] call.Name = "set_location"  -> setLocation(call.ID, args, gs)
            [] call.Name = "add_quest"     -> addQuest(call.ID, args, gs)
            [] call.Name = "skill_check"   -> skillCheck(call.ID, args, gs, diceRng)
            [] call.Name = "saving_throw"  -> savingThrow(call.ID, args, gs, diceRng)
            [] OTHER -> Outcome(gs, ToolResult(call.ID, "",
                            "Unknown tool: " \o call.Name))

(***************************************************************************)
(* providers: the chat messages, tool calls and replies exchanged with a   *)
(* backend.                                                                *)
(***************************************************************************)
ProviderMessage(role, content, toolCalls, toolCallID) ==
    [Role |-> role, Content |-> content, ToolCalls |-> toolCalls,
     ToolCallID |-> toolCallID]

\* A providers.ToolCallInfo, as a backend reply carries it.
ToolCallInfo(id, name, arguments) ==
    [ID |-> id, Function |-> [Name |-> name, Arguments |-> arguments]]

ConvertToolCallToTypesFormat(tc) ==
    ToolCall(tc.ID, tc.Function.Name, tc.Function.Arguments)

\* A providers.ChatResponse.
ChatResponse(content, toolCalls, totalTokens, latency) ==
    [Content |-> content, ToolCalls |-> toolCalls,
     Usage |-> [TotalTokens |-> totalTokens], Latency |-> latency]

(***************************************************************************)
(* engine: the orchestrator.                                               *)
(***************************************************************************)
\* Mutant: the loop bound is off by one.
maxToolIterationsOneMore == 5 + 1

maxToolIterations == 5

\* The state block of the system prompt for the modelled character and
\* world fields (formatCharacterState, formatWorldState).
buildSystemPrompt(gs) ==
    "HP: " \o ToString(gs.State.Character.CurrentHP) \o "/"
        \o ToString(gs.State.Character.MaxHP)
        \o " Gold: " \o ToString(gs.State.Character.Gold)
        \o " XP: " \o ToString(gs.State.Character.XP)
        \o " Location: " \o gs.State.World.CurrentLocation.Name

\* The system prompt followed by the stored conversation, role by role.
buildMessages(gs) ==
    LET conv == gs.State.Conversation.Messages
    IN  <<ProviderMessage(RoleSystem, buildSystemPrompt(gs), <<>>, "")>> \o
        [i \in 1..Len(conv) |->
            ProviderMessage(
                CASE conv[i].Role = RoleAssistant -> RoleAssistant
                  [] conv[i].Role = RoleSystem    -> RoleSystem
                  [] conv[i].Role = RoleTool      -> RoleTool
                  [] OTHER                        -> RoleUser,
                conv[i].Content, <<>>, conv[i].ToolCallID)]

\* &OrchestratorResponse{Events: []domain.Event{}}; Error "" is the nil error.
NewResponse ==
    [Narrative |-> "", Events |-> <<>>, TokensUsed |-> 0, LatencyMs |-> 0,
     Error |-> ""]

\* Mutant: the loop over the tool calls stops at the first failing call.
\* One pass of the loop body: the call tc answered by out, the outcome of
\* Execute, put behind the messages and results gathered so far.
ToolAnswered(acc, tc, out) ==
    [gs       |-> out.gs,
     messages |-> Append(acc.messages,
                      ProviderMessage(RoleTool,
                          IF out.result.Error # ""
                          THEN "Error: " \o out.result.Error
                          ELSE out.result.Content,
                          <<>>, tc.ID)),
     events   |-> IF out.result.Error # ""
                  THEN Append(acc.events, EventError(out.result.Error))
                  ELSE acc.events,
     results  |-> Append(acc.results, out.result)]

RECURSIVE ExecuteToolCallsStopAtError(_, _)
ExecuteToolCallsStopAtError(calls, acc) ==
    IF calls = <<>> THEN acc
    ELSE
      LET next == ToolAnswered(acc, Head(calls),
                      Execute(ConvertToolCallToTypesFormat(Head(calls)), acc.gs))
      IN  IF next.results[Len(next.results)].Error # "" THEN next
          ELSE ExecuteToolCallsStopAtError(Tail(calls), next)

\* The loop over resp.ToolCalls: every call is executed and answered by one
\* tool message.  acc holds the session, the outgoing messages, the response
\* events, and the results Execute returned in execution order.
RECURSIVE ExecuteToolCalls(_, _)
ExecuteToolCalls(calls, acc) ==
    IF calls = <<>> THEN acc
    ELSE ExecuteToolCalls(Tail(calls),
             ToolAnswered(acc, Head(calls),
                 Execute(ConvertToolCallToTypesFormat(Head(calls)), acc.gs)))

\* Mutant: the totals are not copied into the iteration-limit response.
IterationLimitResponseNoTotals(resp, tokens, latency) ==
    [resp EXCEPT !.Error = "maximum tool iterations reached"]

\* The response returned when the loop runs out of iterations.
IterationLimitResponse(resp, tokens, latency) ==
    [resp EXCEPT !.Error = "maximum tool iterations reached",
                 !.LatencyMs = latency,
                 !.TokensUsed = tokens]

\* The response returned for a reply without tool calls.
NarrativeResponse(resp, content, tokens, latency) ==
    [resp EXCEPT !.Narrative = content,
                 !.LatencyMs = latency,
                 !.TokensUsed = tokens]

(***************************************************************************)
(* State of one ProcessInput call.                                         *)
(***************************************************************************)
VARIABLES
    session,        \* the domain.GameSession the orchestrator points to
    provider,       \* o.provider: "none" (nil) or "backend"
    pc,             \* "idle", "chat" (a Chat call is outstanding), "done"
    input,          \* the text passed to ProcessInput
    iteration,      \* the loop counter
    reqMessages,    \* req.Messages
    totalTokens,
    totalLatency,
    response,       \* the OrchestratorResponse being built / returned
    \* history of the call, kept for the properties
    replies,        \* the replies Chat has returned, in order
    chatCalls,      \* how many times Chat has been called
    results,        \* the ToolResults Execute has returned, in order
    sessionAtStart, \* the session when ProcessInput was called
    sessionAfterRound  \* the session when Chat was last called

ovars == <<session, provider, pc, input, iteration, reqMessages, totalTokens,
           totalLatency, response, replies, chatCalls, results,
           sessionAtStart, sessionAfterRound>>

(***************************************************************************)
(* State of a sequence of direct ToolRouter.Execute calls (SpecTools).     *)
(***************************************************************************)
VARIABLES
    toolSteps,      \* how many calls have been executed
    lastCall,       \* the last types.ToolCall executed
    lastResult,     \* the types.ToolResult it returned
    sessionBefore   \* the session that call found

\* State of the direct uses of the logs (SpecLogs).
VARIABLES
    appended        \* what has been appended to the two logs, in order

\* State of the direct uses of the dice (SpecDice, SpecRollers).
VARIABLES
    dice,           \* the last dice operation and what it returned
    rollers         \* the seeded Rollers and what they returned

\* State of the direct uses of UpdateMemorySummary (SpecMemory).
VARIABLES
    memory          \* the calls made so far and what the last one returned

enginevars == <<appended, dice, rollers, memory>>

toolvars == <<toolSteps, lastCall, lastResult, sessionBefore, diceRng,
              enginevars>>

(***************************************************************************)
(* State of the terminal UI (tui.Model) and of the commands it has         *)
(* started in the background (SpecTUI).                                    *)
(***************************************************************************)
VARIABLES
    screen,         \* m.screen
    configStep,     \* m.configStep
    wizardStep,     \* m.wizardStep
    focusPanel,     \* m.focusPanel
    inputValue,     \* m.input.Value()
    loading,        \* m.loading
    mProvider,      \* m.provider: "none" (nil) or "backend"
    autoSave,       \* m.config.AutoSave
    mSession,       \* m.session / the orchestrator's session: 0 is nil
    sessionsMade,   \* how many sessions have been created so far
    savesListed,    \* whether m.saves is non-empty
    running         \* the background commands and goroutines still running

tuivars == <<screen, configStep, wizardStep, focusPanel, inputValue, loading,
             mProvider, autoSave, mSession, sessionsMade, savesListed,
             running>>

vars == <<ovars, toolvars, tuivars>>

(***************************************************************************)
(* The environment of a call: the sessions it may find, the player's text, *)
(* and what the backend may answer.                                        *)
(***************************************************************************)
EarlierMessages(n) ==
    [i \in 1..n |->
        DomainMessage(IF i % 2 = 1 THEN RoleUser ELSE RoleAssistant,
                      "earlier " \o ToString(i))]

\* A session right after character creation.
FreshSession == NewGameSession(NewGameState(Character(10, 10, 0, <<>>)))

\* A session some turns into a game, already modified.
MidGameSession ==
    LET st == NewGameState(Character(12, 7, 2, <<InventoryItem("rope", 1)>>))
    IN  [State |-> [st EXCEPT !.Conversation.Messages = EarlierMessages(4),
                              !.EventLog.Events = <<EventItemAdd("rope", 1)>>],
         IsModified |-> TRUE]

\* A loaded game whose conversation is at its cap.
LongGameSession ==
    LET st == NewGameState(Character(10, 4, 0, <<>>))
    IN  NewGameSession([st EXCEPT !.Conversation.Messages = EarlierMessages(50)])

InitialSessions == {FreshSession, MidGameSession, LongGameSession}

UserInputs == {"I open the door", "I search the room"}

BackendErrors == {"context deadline exceeded"}

tcDamage(id) ==
    ToolCallInfo(id, "update_hp",
        JSONObject([delta |-> JNum(-6), reason |-> JStr("trap")]))

tcHeal(id) ==
    ToolCallInfo(id, "update_hp", JSONObject([delta |-> JNum(5)]))

tcBadDelta(id) ==
    ToolCallInfo(id, "update_hp",
        JSONObject([delta |-> JStr("three"), reason |-> JStr("trap")]))

tcAddRope(id) ==
    ToolCallInfo(id, "add_item", JSONObject([item |-> JStr("rope")]))

tcRemoveRope(id) ==
    ToolCallInfo(id, "remove_item",
        JSONObject([item |-> JStr("rope"), quantity |-> JNum(2)]))

tcUnknown(id) == ToolCallInfo(id, "cast_spell", JSONObject([level |-> JNum(2)]))

tcMalformed(id) == ToolCallInfo(id, "add_item", MalformedJSON)

\* Replies that ask for tools: a lone call, a failing call followed by a
\* succeeding one, and calls whose outcome depends on the inventory.
ToolReplies ==
    { ChatResponse("", <<tcDamage("call_1")>>, 30, 700),
      ChatResponse("Let me check.", <<tcBadDelta("call_2"), tcAddRope("call_3")>>,
                   50, 200),
      ChatResponse("", <<tcUnknown("call_4"), tcRemoveRope("call_5"),
                         tcHeal("call_6")>>, 20, 400),
      ChatResponse("", <<tcMalformed("call_7"), tcRemoveRope("call_8")>>,
                   10, 100) }

\* Replies that end the turn.
NarrativeReplies ==
    { ChatResponse("The door creaks open.", <<>>, 40, 900),
      ChatResponse("", <<>>, 15, 300) }

(***************************************************************************)
(* Orchestrator.ProcessInput, cut at its suspension points (the calls to   *)
(* provider.Chat).                                                         *)
(***************************************************************************)
\* An orchestrator between turns.
OrchestratorIdle ==
    /\ pc = "idle"
    /\ input = ""
    /\ iteration = 0
    /\ reqMessages = <<>>
    /\ totalTokens = 0
    /\ totalLatency = 0
    /\ response = NewResponse
    /\ replies = <<>>
    /\ chatCalls = 0
    /\ results = <<>>
    /\ sessionAtStart = session
    /\ sessionAfterRound = session

InitOrchestrator ==
    /\ session \in InitialSessions
    /\ provider \in {"none", "backend"}
    /\ OrchestratorIdle

\* ProcessInput on an orchestrator without a provider: the guard clause.
ProcessInputNoProvider ==
    /\ pc = "idle"
    /\ provider = "none"
    /\ \E text \in UserInputs : input' = text
    /\ response' = [NewResponse EXCEPT !.Error = "no AI provider configured"]
    /\ pc' = "done"
    /\ sessionAtStart' = session
    /\ UNCHANGED <<session, provider, iteration, reqMessages, totalTokens,
                   totalLatency, replies, chatCalls, results, sessionAfterRound>>
    /\ UNCHANGED <<toolvars, tuivars>>

\* ProcessInput up to the first call of provider.Chat.
ProcessInputBegin ==
    /\ pc = "idle"
    /\ provider # "none"
    /\ \E text \in UserInputs :
         LET gs == [session EXCEPT !.State.Conversation = AddUserMessage(@, text)]
         IN  /\ input' = text
             /\ session' = gs
             /\ reqMessages' = buildMessages(gs)
             /\ sessionAfterRound' = gs
    /\ response' = NewResponse
    /\ totalLatency' = 0
    /\ totalTokens' = 0
    /\ iteration' = 0
    /\ chatCalls' = 1
    /\ pc' = "chat"
    /\ sessionAtStart' = session
    /\ UNCHANGED <<provider, replies, results>>
    /\ UNCHANGED <<toolvars, tuivars>>

\* Mutant: a failed Chat call records an (empty) assistant message.
ChatFailsRecordingReply ==
    /\ pc = "chat"
    /\ \E err \in BackendErrors :
         response' = [response EXCEPT !.Error = "AI request failed: " \o err]
    /\ session' = [session EXCEPT !.State.Conversation =
                                      AddAssistantMessage(@, "")]
    /\ pc' = "done"
    /\ UNCHANGED <<provider, input, iteration, reqMessages,
                   totalTokens, totalLatency, replies, chatCalls, results,
                   sessionAtStart, sessionAfterRound>>
    /\ UNCHANGED <<toolvars, tuivars>>

\* Mutant: a failed Chat call undoes what the tools of the turn did.
ChatFailsRollingBack ==
    /\ pc = "chat"
    /\ \E err \in BackendErrors :
         response' = [response EXCEPT !.Error = "AI request failed: " \o err]
    /\ session' = [sessionAtStart EXCEPT !.State.Conversation =
                                             AddUserMessage(@, input)]
    /\ pc' = "done"
    /\ UNCHANGED <<provider, input, iteration, reqMessages,
                   totalTokens, totalLatency, replies, chatCalls, results,
                   sessionAtStart, sessionAfterRound>>
    /\ UNCHANGED <<toolvars, tuivars>>

\* provider.Chat fails: the turn is abandoned with the wrapped error.
ChatFails ==
    /\ pc = "chat"
    /\ \E err \in BackendErrors :
         response' = [response EXCEPT !.Error = "AI request failed: " \o err]
    /\ pc' = "done"
    /\ UNCHANGED <<session, provider, input, iteration, reqMessages,
                   totalTokens, totalLatency, replies, chatCalls, results,
                   sessionAtStart, sessionAfterRound>>
    /\ UNCHANGED <<toolvars, tuivars>>

\* provider.Chat returns a reply without tool calls: the turn ends.
ChatReturnsNarrative ==
    /\ pc = "chat"
    /\ \E resp \in NarrativeReplies :
         LET latency == totalLatency + resp.Latency
             tokens  == totalTokens + resp.Usage.TotalTokens
         IN  /\ totalLatency' = latency
             /\ totalTokens' = tokens
             /\ response' = NarrativeResponse(response, resp.Content, tokens, latency)
             /\ session' = MarkModified(
                    [session EXCEPT !.State.Conversation =
                                        AddAssistantMessage(@, resp.Content)])
             /\ replies' = Append(replies, resp)
    /\ pc' = "done"
    /\ UNCHANGED <<provider, input, iteration, reqMessages, chatCalls, results,
                   sessionAtStart, sessionAfterRound>>
    /\ UNCHANGED <<toolvars, tuivars>>

\* provider.Chat returns a reply with tool calls: they are executed and
\* answered, and the loop either calls Chat again or runs out of iterations.
\* The end of a round of tool calls: acc is what the loop over the calls
\* left behind.
RoundEnds(resp, acc) ==
    /\ totalLatency' = totalLatency + resp.Latency
    /\ totalTokens' = totalTokens + resp.Usage.TotalTokens
    /\ session' = acc.gs
    /\ reqMessages' = acc.messages
    /\ results' = acc.results
    /\ replies' = Append(replies, resp)
    /\ iteration' = iteration + 1
    /\ IF iteration + 1 < maxToolIterations
       THEN /\ response' = [response EXCEPT !.Events = acc.events]
            /\ chatCalls' = chatCalls + 1
            /\ sessionAfterRound' = acc.gs
            /\ pc' = "chat"
       ELSE /\ response' = IterationLimitResponse(
                               [response EXCEPT !.Events = acc.events],
                               totalTokens + resp.Usage.TotalTokens,
                               totalLatency + resp.Latency)
            /\ pc' = "done"
            /\ UNCHANGED <<chatCalls, sessionAfterRound>>

ChatReturnsToolCalls ==
    /\ pc = "chat"
    /\ \E resp \in ToolReplies :
         RoundEnds(resp,
             ExecuteToolCalls(resp.ToolCalls,
                 [gs       |-> session,
                  messages |-> Append(reqMessages,
                                   ProviderMessage(RoleAssistant, resp.Content,
                                                   resp.ToolCalls, "")),
                  events   |-> response.Events,
                  results  |-> results]))
    /\ UNCHANGED <<provider, input, sessionAtStart>>
    /\ UNCHANGED <<toolvars, tuivars>>

\* The values the variables of the tool sequence and of the UI hold while
\* they are not in use.
IdleToolCall == ToolCall("", "", MalformedJSON)

\* No dice operation yet.
DiceIdle ==
    [op |-> "", input |-> <<>>, ok |-> FALSE, err |-> "",
     roll |-> DiceRoll("", 0, 0, 0), raw |-> <<>>]

\* A Roller that has not been constructed.
NoRoller == [made |-> FALSE, seed |-> 0, rng |-> <<>>, asked |-> <<>>,
             returned |-> <<>>]

EngineIdle ==
    /\ appended = [msgs |-> <<>>, events |-> <<>>]
    /\ dice = DiceIdle
    /\ rollers = [i \in 1..2 |-> NoRoller]
    /\ memory = [calls |-> 0, added |-> 0, chatsBefore |-> 0, err |-> ""]

ToolsIdle ==
    /\ toolSteps = 0
    /\ lastCall = IdleToolCall
    /\ lastResult = ToolResult("", "", "")
    /\ sessionBefore = session
    /\ diceRng = [i \in 1..MaxDice |-> 0]
    /\ EngineIdle

TUIIdle ==
    /\ screen = "Boot"
    /\ configStep = "Language"
    /\ wizardStep = "Name"
    /\ focusPanel = 3
    /\ inputValue = ""
    /\ loading = FALSE
    /\ mProvider = "none"
    /\ autoSave = TRUE
    /\ mSession = 0
    /\ sessionsMade = 0
    /\ savesListed = FALSE
    /\ running = EmptyBag

Init == InitOrchestrator /\ ToolsIdle /\ TUIIdle

Next ==
    \/ ProcessInputNoProvider
    \/ ProcessInputBegin
    \/ ChatFails
    \/ ChatReturnsNarrative
    \/ ChatReturnsToolCalls

Spec == Init /\ [][Next]_vars

(***************************************************************************)
(* SpecTools: a sequence of tool calls handed straight to                  *)
(* ToolRouter.Execute, as a backend may request them turn after turn.      *)
(***************************************************************************)

\* args["delta"] as the backend may send it, in halves: whole and fractional
\* numbers of either sign, up to the ends of the int range.
DeltaHalves == {2 * MinInt, -2 * MaxInt, -12, -3, 0, 1, 6, 2 * (MaxInt - 15)}

HPReasons == {"", "trap"}

ItemNames == {"rope", "torch"}

QuantityHalves == {-2, 0, 4}

InitTools ==
    /\ InitOrchestrator
    /\ ToolsIdle
    /\ TUIIdle

\* The raw draws a generator may produce next: on a d20 they land on 1, on
\* 20 and in between.
Draws == {0, 19, 25}

\* The generator is deterministic: its state is the cycle of its next draws.
DrawSeqs == [1..MaxDice -> Draws]

\* How many draws the call consumed: a dice handler that answered a roll
\* took one per die.
DrawsTaken(call, result) ==
    IF ~call.Arguments.valid \/ result.Error # "" THEN 0
    ELSE IF call.Name = "roll_dice"
    THEN ParseDice(Chars(call.Arguments.fields["notation"].s)).roll.NumDice
    ELSE IF call.Name \in {"skill_check", "saving_throw"} THEN 1
    ELSE 0

\* The generator after k draws.
Advance(draws, k) ==
    [i \in 1..Len(draws) |-> draws[((i - 1 + k) % Len(draws)) + 1]]

\* One ToolRouter.Execute call on the session.
ExecuteStepEnds(call, out) ==
    /\ toolSteps < MaxToolSteps
    /\ pc = "idle"
    /\ session' = out.gs
    /\ lastCall' = call
    /\ lastResult' = out.result
    /\ sessionBefore' = session
    /\ toolSteps' = toolSteps + 1
    /\ diceRng' = Advance(diceRng, DrawsTaken(call, out.result))
    /\ UNCHANGED enginevars
    /\ UNCHANGED <<provider, pc, input, iteration, reqMessages,
                   totalTokens, totalLatency, response, replies,
                   chatCalls, results, sessionAtStart, sessionAfterRound>>
    /\ UNCHANGED tuivars

ExecuteStep(call) == ExecuteStepEnds(call, Execute(call, session))

NextCallID == "call_" \o ToString(toolSteps + 1)

CallUpdateHP ==
    \E h \in DeltaHalves, r \in HPReasons :
        ExecuteStep(ToolCall(NextCallID, "update_hp",
            JSONObject([delta |-> JNum(h), reason |-> JStr(r)])))

CallUpdateHPWithoutDelta ==
    ExecuteStep(ToolCall(NextCallID, "update_hp",
        JSONObject([reason |-> JStr("trap")])))

CallAddItem ==
    \E n \in ItemNames :
        ExecuteStep(ToolCall(NextCallID, "add_item",
            JSONObject([item |-> JStr(n)])))

\* Quantities sent with add_item: a few, and a quarter of the integer range.
AddQuantityHalves == {6, 2 * Pow2(IntBits - 2)}

CallAddItemQuantity ==
    \E n \in ItemNames, q \in AddQuantityHalves :
        ExecuteStep(ToolCall(NextCallID, "add_item",
            JSONObject([item |-> JStr(n), quantity |-> JNum(q)])))

CallRemoveItem ==
    \E n \in ItemNames, q \in QuantityHalves :
        ExecuteStep(ToolCall(NextCallID, "remove_item",
            JSONObject([item |-> JStr(n), quantity |-> JNum(q)])))

CallUnknownTool ==
    ExecuteStep(ToolCall(NextCallID, "cast_spell",
        JSONObject([level |-> JNum(4)])))

CallMalformedArguments ==
    ExecuteStep(ToolCall(NextCallID, "update_hp", MalformedJSON))

NextTools ==
    \/ CallUpdateHP
    \/ CallUpdateHPWithoutDelta
    \/ CallAddItem
    \/ CallAddItemQuantity
    \/ CallRemoveItem
    \/ CallUnknownTool
    \/ CallMalformedArguments

SpecTools == InitTools /\ [][NextTools]_vars

(***************************************************************************)
(* Third specification: the dispatch.  One call at a time of any name,     *)
(* with a payload that is complete, lacks a field, holds a value of the    *)
(* wrong type, or does not decode.                                         *)
(***************************************************************************)
\* How many calls SpecDispatch applies.
MaxDispatchSteps == 1

\* A character some levels in: uneven abilities, trained skills, a
\* condition, some gold, and a quest under way.
VeteranSession ==
    LET c  == [Character(12, 7, 2, <<InventoryItem("rope", 1)>>) EXCEPT
                  !.Abilities = AbilityScores(9, 15, 7, 12, 10, 8),
                  !.Skills[4].Proficient = TRUE,
                  !.Skills[17].Proficient = TRUE,
                  !.Skills[17].Expert = TRUE,
                  !.Conditions = <<"poisoned">>,
                  !.Gold = 5]
        st == NewGameState(c)
    IN  NewGameSession([st EXCEPT !.World.Quests =
                           <<Quest("q1", "Find the key", "", "active")>>])

UnknownToolNames == {"cast_spell", "", "Roll_Dice"}

\* The names the catalogue hands to the backend.
ToolNames == {AvailableTools[i] : i \in 1..Len(AvailableTools)}

\* The names Execute's switch has a case for.
HandlerNames ==
    {"roll_dice", "update_hp", "add_item", "remove_item", "set_condition",
     "update_gold", "award_xp", "set_location", "add_quest", "skill_check",
     "saving_throw"}

\* A complete payload for each tool: every field its handler reads.
GoodArgs(name) ==
    CASE name = "roll_dice" ->
            [notation |-> JStr("1d20"), reason |-> JStr("attack")]
      [] name = "update_hp" ->
            [delta |-> JNum(-6), reason |-> JStr("trap")]
      [] name = "add_item" ->
            [item |-> JStr("torch"), quantity |-> JNum(4)]
      [] name = "remove_item" ->
            [item |-> JStr("rope"), quantity |-> JNum(2)]
      [] name = "set_condition" ->
            [condition |-> JStr("blinded"), add |-> JBool(TRUE)]
      [] name = "update_gold" ->
            [delta |-> JNum(6), reason |-> JStr("loot")]
      [] name = "award_xp" ->
            [amount |-> JNum(20), reason |-> JStr("victory")]
      [] name = "set_location" ->
            [name |-> JStr("Crypt"), description |-> JStr("Cold and dark"),
             exits |-> JList(<<JStr("north"), JNum(2)>>)]
      [] name = "add_quest" ->
            [id |-> JStr("q2"), name |-> JStr("Slay the rat"),
             description |-> JStr("In the cellar"), status |-> JStr("active")]
      [] name = "skill_check" ->
            [skill |-> JStr("Stealth"), dc |-> JNum(24)]
      [] name = "saving_throw" ->
            [ability |-> JStr("str"), dc |-> JNum(20)]
      [] OTHER -> [level |-> JNum(4)]

\* args without the field f.
Without1(args, f) == [k \in (DOMAIN args) \ {f} |-> args[k]]

\* A value of another type than v.
Mistyped(v) == IF v.t = "string" THEN JNum(4) ELSE JStr("seven")

InitDispatch ==
    /\ session = VeteranSession
    /\ provider = "backend"
    /\ OrchestratorIdle
    /\ toolSteps = 0
    /\ lastCall = IdleToolCall
    /\ lastResult = ToolResult("", "", "")
    /\ sessionBefore = session
    /\ diceRng \in DrawSeqs
    /\ EngineIdle
    /\ TUIIdle

DispatchStep(call) == toolSteps < MaxDispatchSteps /\ ExecuteStep(call)

DispatchComplete ==
    \E name \in HandlerNames :
        DispatchStep(ToolCall(NextCallID, name, JSONObject(GoodArgs(name))))

DispatchUnknown ==
    \E name \in UnknownToolNames :
        DispatchStep(ToolCall(NextCallID, name, JSONObject(GoodArgs(name))))

DispatchMissingField ==
    \E name \in HandlerNames :
        \E f \in DOMAIN GoodArgs(name) :
            DispatchStep(ToolCall(NextCallID, name,
                JSONObject(Without1(GoodArgs(name), f))))

DispatchMistypedField ==
    \E name \in HandlerNames :
        \E f \in DOMAIN GoodArgs(name) :
            DispatchStep(ToolCall(NextCallID, name,
                JSONObject([GoodArgs(name) EXCEPT ![f] = Mistyped(@)])))

DispatchMalformed ==
    \E name \in HandlerNames \cup UnknownToolNames :
        DispatchStep(ToolCall(NextCallID, name, MalformedJSON))

DispatchRollDice ==
    \E cs \in KnownNotations :
        DispatchStep(ToolCall(NextCallID, "roll_dice",
            JSONObject([notation |-> JStr(Join(cs))])))

\* Calls whose handler refuses them after reading its arguments: an item
\* the character does not carry, an ability that does not exist.
RefusedCalls ==
    { ToolCall(NextCallID, "remove_item",
          JSONObject([item |-> JStr("lantern"), quantity |-> JNum(2)])),
      ToolCall(NextCallID, "saving_throw",
          JSONObject([ability |-> JStr("luck"), dc |-> JNum(20)])) }

DispatchRefused == \E call \in RefusedCalls : DispatchStep(call)

\* Calls that take the other branch of their handler: a condition removed,
\* a quest already known.
OtherBranchCalls ==
    { ToolCall(NextCallID, "set_condition",
          JSONObject([condition |-> JStr("poisoned"), add |-> JBool(FALSE)])),
      ToolCall(NextCallID, "add_quest",
          JSONObject([id |-> JStr("q1"), name |-> JStr("Find the key"),
                      status |-> JStr("completed")])) }

DispatchOtherBranch == \E call \in OtherBranchCalls : DispatchStep(call)

NextDispatch ==
    \/ DispatchComplete
    \/ DispatchRefused
    \/ DispatchOtherBranch
    \/ DispatchRollDice
    \/ DispatchUnknown
    \/ DispatchMissingField
    \/ DispatchMistypedField
    \/ DispatchMalformed

SpecDispatch == InitDispatch /\ [][NextDispatch]_vars

(***************************************************************************)
(* Fourth specification: the character sheet and the world.  Sequences of  *)
(* calls of the tools that change the session, on a new character and on   *)
(* one some levels in, neither yet marked modified.                        *)
(***************************************************************************)
ConditionNames == {"poisoned", "blinded"}

\* Gold deltas: a payment beyond the purse, a gain, a quarter of the integer
\* range, and the most negative integer.
GoldHalves == {-12, 6, 2 * Pow2(IntBits - 2), 2 * MinInt}

QuestIDs == {"q1", "q2"}

QuestStatuses == {"", "completed"}

InitSheet ==
    /\ session \in {FreshSession, VeteranSession}
    /\ provider = "backend"
    /\ OrchestratorIdle
    /\ ToolsIdle
    /\ TUIIdle

SheetSetCondition ==
    \E c \in ConditionNames, add \in BOOLEAN :
        ExecuteStep(ToolCall(NextCallID, "set_condition",
            JSONObject([condition |-> JStr(c), add |-> JBool(add)])))

SheetUpdateGold ==
    \E h \in GoldHalves :
        ExecuteStep(ToolCall(NextCallID, "update_gold",
            JSONObject([delta |-> JNum(h), reason |-> JStr("trade")])))

SheetAwardXP ==
    ExecuteStep(ToolCall(NextCallID, "award_xp",
        JSONObject([amount |-> JNum(20)])))

SheetSetLocation ==
    ExecuteStep(ToolCall(NextCallID, "set_location",
        JSONObject(GoodArgs("set_location"))))

SheetAddQuest ==
    \E q \in QuestIDs, st \in QuestStatuses :
        ExecuteStep(ToolCall(NextCallID, "add_quest",
            JSONObject([id |-> JStr(q), name |-> JStr("Find the key"),
                        status |-> JStr(st)])))

SheetUpdateHP ==
    ExecuteStep(ToolCall(NextCallID, "update_hp",
        JSONObject([delta |-> JNum(0), reason |-> JStr("rest")])))

SheetAddItem ==
    ExecuteStep(ToolCall(NextCallID, "add_item",
        JSONObject([item |-> JStr("torch")])))

SheetRemoveItem ==
    \E n \in ItemNames :
        ExecuteStep(ToolCall(NextCallID, "remove_item",
            JSONObject([item |-> JStr(n)])))

NextSheet ==
    \/ SheetSetCondition
    \/ SheetUpdateGold
    \/ SheetAwardXP
    \/ SheetSetLocation
    \/ SheetAddQuest
    \/ SheetUpdateHP
    \/ SheetAddItem
    \/ SheetRemoveItem

SpecSheet == InitSheet /\ [][NextSheet]_vars

(***************************************************************************)
(* Fifth specification: the checks.  skill_check and saving_throw on       *)
(* characters of various strength and training, with a generator in any    *)
(* state.                                                                  *)
(***************************************************************************)
Scores == {3, 7, 8, 9, 10, 11, 15, 18}

Tiers == {"untrained", "proficient", "expert"}

\* A new character with the given strength and training in Athletics.
Athlete(score, tier) ==
    NewGameSession(NewGameState(
        [Character(10, 10, 0, <<>>) EXCEPT
            !.Abilities.STR = score,
            !.Skills[4].Proficient = tier # "untrained",
            !.Skills[4].Expert = tier = "expert"]))

InitChecks ==
    /\ \E score \in Scores, tier \in Tiers : session = Athlete(score, tier)
    /\ provider = "backend"
    /\ OrchestratorIdle
    /\ toolSteps = 0
    /\ lastCall = IdleToolCall
    /\ lastResult = ToolResult("", "", "")
    /\ sessionBefore = session
    /\ diceRng \in DrawSeqs
    /\ EngineIdle
    /\ TUIIdle

CheckSkill ==
    \E sk \in {"Athletics", "Juggling"} :
        ExecuteStep(ToolCall(NextCallID, "skill_check",
            JSONObject([skill |-> JStr(sk), dc |-> JNum(24)])))

CheckSave ==
    \E ab \in {"str", "DEX", "luck"} :
        ExecuteStep(ToolCall(NextCallID, "saving_throw",
            JSONObject([ability |-> JStr(ab), dc |-> JNum(20)])))

NextChecks ==
    \/ CheckSkill
    \/ CheckSave

SpecChecks == InitChecks /\ [][NextChecks]_vars

(***************************************************************************)
(* The logs.  Messages and events are appended to                          *)
(* a new game's conversation and event log, past their caps.               *)
(***************************************************************************)
\* How many messages and how many events are appended.
MaxMessages == 52
MaxEvents == 102

\* The caps handed to NewConversation and NewEventLog: the ones NewGameState
\* uses, a small one, and none.
ConversationCaps == {50, 2, 0}
EventLogCaps == {100, 2, 0}

\* The n-th message and the n-th event appended.
NthMessage(n) ==
    DomainMessage(IF n % 2 = 1 THEN RoleUser ELSE RoleAssistant,
                  "message " \o ToString(n))

NthEvent(n) == EventError("event " \o ToString(n))

InitLogs ==
    /\ \E cc \in ConversationCaps, ec \in EventLogCaps :
           session = NewGameSession(
               [NewGameState(Character(10, 10, 0, <<>>)) EXCEPT
                   !.Conversation = NewConversation(cc),
                   !.EventLog = NewEventLog(ec)])
    /\ provider = "backend"
    /\ OrchestratorIdle
    /\ ToolsIdle
    /\ TUIIdle

LogsFrame ==
    /\ UNCHANGED <<provider, pc, input, iteration, reqMessages, totalTokens,
                   totalLatency, response, replies, chatCalls, results,
                   sessionAtStart, sessionAfterRound>>
    /\ UNCHANGED <<toolSteps, lastCall, lastResult, sessionBefore, diceRng>>
    /\ UNCHANGED <<dice, rollers, memory>>
    /\ UNCHANGED tuivars

\* Conversation.Add
ConversationAdds ==
    /\ pc = "idle"
    /\ Len(appended.msgs) < MaxMessages
    /\ LET msg == NthMessage(Len(appended.msgs) + 1)
       IN  /\ session' = [session EXCEPT !.State.Conversation =
                                             ConversationAdd(@, msg)]
           /\ appended' = [appended EXCEPT !.msgs = Append(@, msg)]
    /\ LogsFrame

\* EventLog.Add
EventLogAdds ==
    /\ pc = "idle"
    /\ Len(appended.events) < MaxEvents
    /\ LET event == NthEvent(Len(appended.events) + 1)
       IN  /\ session' = [session EXCEPT !.State.EventLog =
                                             EventLogAdd(@, event)]
           /\ appended' = [appended EXCEPT !.events = Append(@, event)]
    /\ LogsFrame

NextLogs ==
    \/ ConversationAdds
    \/ EventLogAdds

SpecLogs == InitLogs /\ [][NextLogs]_vars

(***************************************************************************)
(* The dice engine used directly.  Notations are                           *)
(* parsed and rolled with the process-wide generator.                      *)
(***************************************************************************)
\* The raw draws the generator of this specification holds.
DiceDraws == {0, 19, 29}

\* The texts handed to ParseDice.
ParserInputs ==
    KnownNotations \cup
    { <<>>, <<"1", "d">>, <<"d", "2", "0">>, <<"1", "d", "0">>,
      <<"1", "0", "0", "d", "6">>, <<"1", "0", "1", "d", "6">>,
      <<"1", "d", "1", "0", "0", "0">>, <<"1", "d", "1", "0", "0", "1">>,
      <<" ", "2", "D", "6", " ">>, <<"2", " ", "d", "6">>,
      <<"2", "d", "6", "+">>, <<"2", "d", "6", "+", "-", "1">>,
      <<"-", "2", "d", "6">>, <<"2", "d", "6", "-", "3">>,
      <<"2", "d", "6", "+", "0">>, <<"2", "d", "6", "x">>,
      <<"0", "2", "d", "0", "6", "+", "0", "0", "7">>,
      <<"1", "d", "6", "+">> \o MinIntDigits,
      <<"1", "d", "6", "-">> \o <<"0">> \o MinIntDigits \o <<"0">>,
      MinIntDigits \o <<"d", "6">>,
      <<"1", "d">> \o MinIntDigits }

\* The arguments handed to Roll.
RollCounts == {-1, 0, 2}
RollSides == {0, 6}
RollModifiers == {-3, 2}

InitDice ==
    /\ session = NewGameSession(NewGameState(Character(10, 10, 0, <<>>)))
    /\ provider = "backend"
    /\ OrchestratorIdle
    /\ toolSteps = 0
    /\ lastCall = IdleToolCall
    /\ lastResult = ToolResult("", "", "")
    /\ sessionBefore = session
    /\ diceRng \in [1..AbilityDice -> DiceDraws]
    /\ EngineIdle
    /\ TUIIdle

DiceFrame ==
    /\ UNCHANGED ovars
    /\ UNCHANGED <<toolSteps, lastCall, lastResult, sessionBefore>>
    /\ UNCHANGED <<appended, rollers, memory>>
    /\ UNCHANGED tuivars

\* What a parsing operation returned.
DiceReturned(op, chars, p) ==
    [op |-> op, input |-> chars, ok |-> p.ok, err |-> p.err,
     roll |-> p.roll, raw |-> <<>>]

\* What a rolling operation that cannot fail returned.
DiceRolled(op, roll, raw) ==
    [op |-> op, input |-> <<>>, ok |-> TRUE, err |-> "", roll |-> roll,
     raw |-> raw]

\* ParseDice(notation)
ParsesDice(chars) ==
    /\ dice' = DiceReturned("ParseDice", chars, ParseDice(chars))
    /\ UNCHANGED diceRng
    /\ DiceFrame

\* dr.Roll() on the value the last operation returned.
RollsAgain ==
    /\ dice.ok
    /\ dice.roll.NumDice >= 0
    /\ dice.roll.NumDice = 0 \/ dice.roll.DiceSides > 0
    /\ dice' = DiceRolled("DiceRoll.Roll", RollWith(dice.roll, diceRng), <<>>)
    /\ diceRng' = Advance(diceRng, dice.roll.NumDice)
    /\ DiceFrame

\* RollDice(notation)
RollsDice(chars) ==
    /\ dice' = DiceReturned("RollDice", chars, RollDice(chars, diceRng))
    /\ diceRng' = Advance(diceRng, ParseDice(chars).roll.NumDice)
    /\ DiceFrame

\* Roll(numDice, diceSides, modifier): make panics on a negative length and
\* Intn on a bound below 1.
Rolls(numDice, diceSides, modifier) ==
    /\ IF numDice < 0 \/ (numDice > 0 /\ diceSides <= 0)
       THEN /\ dice' = [DiceIdle EXCEPT !.op = "panic"]
            /\ UNCHANGED diceRng
       ELSE /\ dice' = DiceRolled("Roll",
                           Roll(numDice, diceSides, modifier, diceRng), <<>>)
            /\ diceRng' = Advance(diceRng, numDice)
    /\ DiceFrame

\* RollD20()
RollsD20 ==
    /\ dice' = DiceRolled("RollD20", RollD20(diceRng), <<>>)
    /\ diceRng' = Advance(diceRng, 1)
    /\ DiceFrame

\* RollAbilityScore()
RollsAbilityScore ==
    /\ dice' = DiceRolled("RollAbilityScore", RollAbilityScore(diceRng),
                      AbilityRolls(diceRng))
    /\ diceRng' = Advance(diceRng, AbilityDice)
    /\ DiceFrame

NextDice ==
    \/ \E chars \in ParserInputs : ParsesDice(chars)
    \/ RollsAgain
    \/ \E chars \in KnownNotations : RollsDice(chars)
    \/ \E n \in RollCounts, m \in RollModifiers :
           \E sides \in RollSides : Rolls(n, sides, m)
    \/ RollsD20
    \/ RollsAbilityScore

SpecDice == InitDice /\ [][NextDice]_vars

(***************************************************************************)
(* The Rollers: two seeded Rollers beside the process-wide                 *)
(* generator.                                                              *)
(***************************************************************************)
\* How many rolls are asked of one Roller.
MaxSeededRolls == 2

\* The seeds handed to NewRoller.
Seeds == {1, 2}

\* The notations asked of a Roller.
RollerNotations ==
    { <<"1", "d", "2", "0">>, <<"2", "d", "6", "+", "1">>,
      <<"f", "i", "r", "e">> }

\* rand.NewSource(seed): the draws of a generator are a function of its
\* seed.
SeedDraws(seed) == [i \in 1..AbilityDice |-> (seed * 11 + i * 7) % 32]

\* NewRoller(seed)
NewRoller(seed) ==
    [made |-> TRUE, seed |-> seed, rng |-> SeedDraws(seed), asked |-> <<>>,
     returned |-> <<>>]

\* Mutant: a Roller draws from the process-wide generator.
RollerDrawsShared(r) == diceRng

\* The generator a Roller draws from: r.rng.
RollerDraws(r) == r.rng

\* r.Roll(notation): the Roller after the call, having recorded what was
\* asked and what it returned.
RollerRoll(r, chars) ==
    [r EXCEPT !.rng = Advance(@, RollDice(chars, RollerDraws(r)).roll.NumDice),
              !.asked = Append(@, chars),
              !.returned = Append(@, RollDice(chars, RollerDraws(r)))]

InitRollers ==
    /\ session = NewGameSession(NewGameState(Character(10, 10, 0, <<>>)))
    /\ provider = "backend"
    /\ OrchestratorIdle
    /\ toolSteps = 0
    /\ lastCall = IdleToolCall
    /\ lastResult = ToolResult("", "", "")
    /\ sessionBefore = session
    /\ diceRng \in {<<0, 19, 29, 19>>, <<29, 0, 0, 19>>}
    /\ EngineIdle
    /\ TUIIdle

RollersFrame ==
    /\ UNCHANGED ovars
    /\ UNCHANGED <<toolSteps, lastCall, lastResult, sessionBefore>>
    /\ UNCHANGED <<appended, memory>>
    /\ UNCHANGED tuivars

\* NewRoller(seed), kept as the i-th Roller.
MakesRoller(i, seed) ==
    /\ ~rollers[i].made
    /\ rollers' = [rollers EXCEPT ![i] = NewRoller(seed)]
    /\ UNCHANGED <<diceRng, dice>>
    /\ RollersFrame

\* The i-th Roller's Roll(notation).
RollerRolls(i, chars) ==
    /\ rollers[i].made
    /\ Len(rollers[i].asked) < MaxSeededRolls
    /\ rollers' = [rollers EXCEPT ![i] = RollerRoll(@, chars)]
    /\ UNCHANGED <<diceRng, dice>>
    /\ RollersFrame

\* RollD20() beside the Rollers.
UnseededRolls ==
    /\ dice' = DiceRolled("RollD20", RollD20(diceRng), <<>>)
    /\ diceRng' = Advance(diceRng, 1)
    /\ UNCHANGED rollers
    /\ RollersFrame

NextRollers ==
    \/ \E i \in 1..2, seed \in Seeds : MakesRoller(i, seed)
    \/ \E i \in 1..2, chars \in RollerNotations : RollerRolls(i, chars)
    \/ UnseededRolls

SpecRollers == InitRollers /\ [][NextRollers]_vars

(***************************************************************************)
(* The memory summary: Orchestrator.UpdateMemorySummary, cut at its call   *)
(* to provider.Chat, on conversations below, at and above ten messages.    *)
(***************************************************************************)
\* How many times UpdateMemorySummary is called and how many messages are
\* added between the calls.
MaxSummaries == 2
MaxAdded == 3

\* The summaries the backend writes.
SummaryReplies == {"The party reached the crypt.", ""}

\* A session eight messages into a game.
EightMessages ==
    [FreshSession EXCEPT !.State.Conversation.Messages = EarlierMessages(8)]

\* Mutant: a summary is asked for whatever the length of the conversation.
TooShortNever(gs) == FALSE

\* o.session.State.Conversation.Len() < 10
TooShort(gs) == Len(gs.State.Conversation.Messages) < 10

\* The request UpdateMemorySummary sends.
SummaryRequest(gs) ==
    LET conv == gs.State.Conversation.Messages
    IN  <<ProviderMessage(RoleSystem,
              "You are a helpful assistant that summarizes RPG adventure stories.",
              <<>>, "")>>
        \o [i \in 1..Len(conv) |->
               ProviderMessage(IF conv[i].Role = RoleAssistant
                               THEN RoleAssistant ELSE RoleUser,
                               conv[i].Content, <<>>, "")]
        \o <<ProviderMessage(RoleUser,
                "Please provide a brief summary of the story so far, focusing on key events, decisions, and character developments. Keep it under 500 words.",
                <<>>, "")>>

InitMemory ==
    /\ \E gs \in {FreshSession, EightMessages, LongGameSession},
          old \in {"", "The party left the inn."} :
           session = [gs EXCEPT !.State.World.MemorySummary = old]
    /\ provider \in {"none", "backend"}
    /\ OrchestratorIdle
    /\ ToolsIdle
    /\ TUIIdle

MemoryFrame ==
    /\ UNCHANGED <<provider, input, iteration, totalTokens, totalLatency,
                   response, replies, results, sessionAfterRound>>
    /\ UNCHANGED <<toolSteps, lastCall, lastResult, sessionBefore, diceRng>>
    /\ UNCHANGED <<appended, dice, rollers>>
    /\ UNCHANGED tuivars

\* A message is added to the conversation between two calls.
MessageAdded ==
    /\ pc \in {"idle", "done"}
    /\ memory.added < MaxAdded
    /\ session' = [session EXCEPT !.State.Conversation =
                       AddUserMessage(@, "added " \o ToString(memory.added))]
    /\ memory' = [memory EXCEPT !.added = @ + 1]
    /\ pc' = "idle"
    /\ UNCHANGED <<reqMessages, chatCalls, sessionAtStart>>
    /\ MemoryFrame

\* UpdateMemorySummary up to its return below the threshold or to its call
\* of provider.Chat, which panics on a nil provider.
UpdateMemorySummaryStarts ==
    /\ pc \in {"idle", "done"}
    /\ memory.calls < MaxSummaries
    /\ sessionAtStart' = session
    /\ memory' = [memory EXCEPT !.calls = @ + 1, !.chatsBefore = chatCalls,
                                !.err = ""]
    /\ IF TooShort(session)
       THEN /\ pc' = "done"
            /\ UNCHANGED <<reqMessages, chatCalls>>
       ELSE IF provider = "none"
       THEN /\ pc' = "panic"
            /\ UNCHANGED <<reqMessages, chatCalls>>
       ELSE /\ pc' = "summary"
            /\ reqMessages' = SummaryRequest(session)
            /\ chatCalls' = chatCalls + 1
    /\ UNCHANGED session
    /\ MemoryFrame

\* provider.Chat returns a summary.
SummaryChatReturns(content) ==
    /\ pc = "summary"
    /\ session' = MarkModified(
                      [session EXCEPT !.State.World.MemorySummary = content])
    /\ pc' = "done"
    /\ UNCHANGED <<memory, reqMessages, chatCalls, sessionAtStart>>
    /\ MemoryFrame

\* provider.Chat returns an error.
SummaryChatFails(err) ==
    /\ pc = "summary"
    /\ memory' = [memory EXCEPT !.err = err]
    /\ pc' = "done"
    /\ UNCHANGED <<session, reqMessages, chatCalls, sessionAtStart>>
    /\ MemoryFrame

NextMemory ==
    \/ MessageAdded
    \/ UpdateMemorySummaryStarts
    \/ \E content \in SummaryReplies : SummaryChatReturns(content)
    \/ \E err \in BackendErrors : SummaryChatFails(err)

SpecMemory == InitMemory /\ [][NextMemory]_vars

(***************************************************************************)
(* SpecTUI: the terminal UI.  Update handles one message at a time; the    *)
(* commands it returns and the goroutines it starts run in the background  *)
(* and hand their result back as a message.  A background entry is         *)
(* [kind, sess]: sess is the session it works on, 0 while it has not yet   *)
(* read m.orchestrator / m.session (and always 0 for a load).              *)
(*                                                                         *)
(* Kept out of the state: the frame counter of the boot animation, the     *)
(* cursors of the menus and lists (choosing an entry is moving the cursor  *)
(* to it and pressing Enter), the help screen, scrolling and the text-to-  *)
(* speech switch.  Quitting (Ctrl-C, Ctrl-Q, the Quit entry, /quit) ends   *)
(* the program, that is, the behaviour stops there.                        *)
(***************************************************************************)
FocusNarration == 0
FocusCharacter == 1
FocusEventLog == 2
FocusInput == 3

\* What the player may have typed into the input line of the game screen,
\* one text per branch of ParseCommand / CommandHandler.Execute that the
\* Enter key tells apart.
GameInputs == {"I open the door", "/save", "/load quest", "/new", "/status"}

\* result.UIAction for a typed line ("none" when Execute answers by itself).
UIActionOf(text) ==
    CASE text = "/save"       -> "save"
      [] text = "/load quest" -> "load"
      [] text = "/new"        -> "new"
      [] text = "/status"     -> "none"
      [] OTHER                -> "narration"

InFlight == BagCardinality(running)

Background(kind, sess) == [kind |-> kind, sess |-> sess]

Started(bag, kind) == bag (+) SetToBag({Background(kind, 0)})

Without(bag, e) == bag (-) SetToBag({e})

\* config.IsConfigured(): an API key is set for the configured provider,
\* which is when initProvider has built m.provider.
IsConfigured == mProvider # "none"

InitTUI ==
    /\ InitOrchestrator
    /\ session = FreshSession
    /\ provider = "backend"
    /\ ToolsIdle
    /\ screen = "Boot"
    /\ configStep = "Language"
    /\ wizardStep = "Name"
    /\ focusPanel = FocusInput
    /\ inputValue = ""
    /\ loading = FALSE
    /\ mProvider \in {"none", "backend"}
    /\ autoSave \in BOOLEAN
    /\ mSession = 0
    /\ sessionsMade = 0
    /\ savesListed = FALSE
    /\ running = EmptyBag

\* What no handler of the UI touches.
TUIFrame == UNCHANGED <<ovars, toolvars, autoSave>>

\* case ScreenBoot (Enter, Space) and case tickMsg past the last frame: the
\* boot screen gives way to the settings or to the menu.
BootEnds ==
    /\ screen = "Boot"
    /\ screen' = IF IsConfigured THEN "Menu" ELSE "Config"
    /\ UNCHANGED <<configStep, wizardStep, focusPanel, inputValue, loading,
                   mProvider, mSession, sessionsMade, savesListed, running>>
    /\ TUIFrame

\* updateConfig: the settings dialogue, step by step.
updateConfig ==
    /\ screen = "Config"
    /\ \/ /\ configStep = "Language"              \* Enter
          /\ configStep' = "Provider"
          /\ UNCHANGED <<screen, mProvider>>
       \/ /\ configStep = "Language"              \* Esc
          /\ screen' = "Menu"
          /\ UNCHANGED <<configStep, mProvider>>
       \/ /\ configStep = "Provider"              \* Enter
          /\ configStep' = "APIKey"
          /\ UNCHANGED <<screen, mProvider>>
       \/ /\ configStep = "Provider"              \* Esc
          /\ configStep' = "Language"
          /\ UNCHANGED <<screen, mProvider>>
       \/ /\ configStep = "APIKey"                \* Enter on a typed key
          /\ mProvider' = "backend"
          /\ configStep' = "Confirm"
          /\ UNCHANGED screen
       \/ /\ configStep = "APIKey"                \* Esc
          /\ configStep' = "Provider"
          /\ UNCHANGED <<screen, mProvider>>
       \/ /\ configStep = "Confirm"               \* Enter
          /\ screen' = "Menu"
          /\ configStep' = "Language"
          /\ UNCHANGED mProvider
    /\ UNCHANGED <<wizardStep, focusPanel, inputValue, loading, mSession,
                   sessionsMade, savesListed, running>>
    /\ TUIFrame

\* updateMenu: Enter on an entry of the main menu.
updateMenu ==
    /\ screen = "Menu"
    /\ \/ /\ screen' = "Wizard"                   \* New Campaign
          /\ wizardStep' = "Name"
          /\ inputValue' = ""
          /\ UNCHANGED savesListed
       \/ /\ savesListed' \in BOOLEAN             \* Load Game
          /\ screen' = "Saves"
          /\ UNCHANGED <<wizardStep, inputValue>>
       \/ /\ screen' = "Config"                   \* Settings
          /\ UNCHANGED <<wizardStep, inputValue, savesListed>>
    /\ UNCHANGED <<configStep, focusPanel, loading, mProvider, mSession,
                   sessionsMade, running>>
    /\ TUIFrame

\* startNewGame: a new session, command handler and orchestrator.
startNewGame ==
    /\ sessionsMade < MaxSessions
    /\ sessionsMade' = sessionsMade + 1
    /\ mSession' = sessionsMade + 1
    /\ screen' = "Game"
    /\ focusPanel' = FocusInput

\* sendToAI: without a provider only an error is shown; otherwise loading
\* is set and the command that calls ProcessInput is returned.
sendToAI ==
    IF mProvider = "none"
    THEN UNCHANGED <<loading, running>>
    ELSE /\ InFlight < MaxInFlight
         /\ loading' = TRUE
         /\ running' = Started(running, "ai")

saveGame ==
    /\ InFlight < MaxInFlight
    /\ loading' = TRUE
    /\ running' = Started(running, "save")

loadGame ==
    /\ InFlight < MaxInFlight
    /\ loading' = TRUE
    /\ running' = Started(running, "load")

WizardNames == {"Aria"}

NextWizardStep(step) ==
    CASE step = "Name"  -> "Race"
      [] step = "Race"  -> "Class"
      [] step = "Class" -> "Stats"
      [] step = "Stats" -> "Confirm"

PrevWizardStep(step) ==
    CASE step = "Race"    -> "Name"
      [] step = "Class"   -> "Race"
      [] step = "Stats"   -> "Class"
      [] step = "Confirm" -> "Stats"

\* updateWizard: character creation; confirming starts the game and sends
\* the opening line to the backend.
updateWizard ==
    /\ screen = "Wizard"
    /\ \/ /\ wizardStep = "Name"                  \* a name is typed
          /\ inputValue = ""
          /\ inputValue' \in WizardNames
          /\ UNCHANGED <<screen, wizardStep, focusPanel, loading, mSession,
                         sessionsMade, running>>
       \/ /\ wizardStep = "Name"                  \* Enter
          /\ inputValue # ""
          /\ inputValue' = ""
          /\ wizardStep' = "Race"
          /\ UNCHANGED <<screen, focusPanel, loading, mSession, sessionsMade,
                         running>>
       \/ /\ wizardStep = "Name"                  \* Esc
          /\ screen' = "Menu"
          /\ UNCHANGED <<wizardStep, inputValue, focusPanel, loading,
                         mSession, sessionsMade, running>>
       \/ /\ wizardStep \in {"Race", "Class", "Stats"}    \* Enter
          /\ wizardStep' = NextWizardStep(wizardStep)
          /\ UNCHANGED <<screen, inputValue, focusPanel, loading, mSession,
                         sessionsMade, running>>
       \/ /\ wizardStep \in {"Race", "Class", "Stats", "Confirm"}   \* Esc
          /\ wizardStep' = PrevWizardStep(wizardStep)
          /\ UNCHANGED <<screen, inputValue, focusPanel, loading, mSession,
                         sessionsMade, running>>
       \/ /\ wizardStep = "Confirm"               \* Enter, y
          /\ startNewGame
          /\ sendToAI
          /\ UNCHANGED <<wizardStep, inputValue>>
       \/ /\ wizardStep = "Confirm"               \* n
          /\ wizardStep' = "Name"
          /\ UNCHANGED <<screen, inputValue, focusPanel, loading, mSession,
                         sessionsMade, running>>
    /\ UNCHANGED <<configStep, mProvider, savesListed>>
    /\ TUIFrame

\* updateGame: the game screen.  Every key is dropped while m.loading is set.
updateGame ==
    /\ screen = "Game"
    /\ ~loading
    /\ \/ /\ saveGame                             \* Ctrl-S
          /\ UNCHANGED <<screen, wizardStep, focusPanel, inputValue>>
       \/ /\ screen' = "Menu"                     \* Esc
          /\ UNCHANGED <<wizardStep, focusPanel, inputValue, loading,
                         running>>
       \/ /\ focusPanel' = (focusPanel + 1) % 4   \* Tab
          /\ UNCHANGED <<screen, wizardStep, inputValue, loading, running>>
       \/ /\ focusPanel = FocusInput              \* a line is typed
          /\ inputValue = ""
          /\ inputValue' \in GameInputs
          /\ UNCHANGED <<screen, wizardStep, focusPanel, loading, running>>
       \/ /\ focusPanel = FocusInput              \* Enter
          /\ inputValue # ""
          /\ inputValue' = ""
          /\ LET action == UIActionOf(inputValue)
             IN  \/ /\ action = "narration"
                    /\ sendToAI
                    /\ UNCHANGED <<screen, wizardStep>>
                 \/ /\ action = "save"
                    /\ saveGame
                    /\ UNCHANGED <<screen, wizardStep>>
                 \/ /\ action = "load"
                    /\ loadGame
                    /\ UNCHANGED <<screen, wizardStep>>
                 \/ /\ action = "new"
                    /\ screen' = "Wizard"
                    /\ wizardStep' = "Name"
                    /\ UNCHANGED <<loading, running>>
                 \/ /\ action = "none"
                    /\ UNCHANGED <<screen, wizardStep, loading, running>>
          /\ UNCHANGED focusPanel
    /\ UNCHANGED <<configStep, mProvider, mSession, sessionsMade,
                   savesListed>>
    /\ TUIFrame

\* updateSaves: the list of saved games.  Enter loads the selected one.
updateSaves ==
    /\ screen = "Saves"
    /\ \/ /\ savesListed                          \* Enter
          /\ loadGame
          /\ UNCHANGED screen
       \/ /\ screen' = "Menu"                     \* Esc
          /\ UNCHANGED <<loading, running>>
    /\ UNCHANGED <<configStep, wizardStep, focusPanel, inputValue, mProvider,
                   mSession, sessionsMade, savesListed>>
    /\ TUIFrame

\* A command or goroutine that was started gets to run and reads the
\* orchestrator (or the session) the model points to at that moment.
CommandRuns ==
    /\ mSession # 0
    /\ \E e \in BagToSet(running) :
          /\ e.sess = 0
          /\ e.kind \in {"ai", "save", "autosave"}
          /\ running' = Without(running, e)
                            (+) SetToBag({Background(e.kind, mSession)})
    /\ UNCHANGED <<screen, configStep, wizardStep, focusPanel, inputValue,
                   loading, mProvider, mSession, sessionsMade, savesListed>>
    /\ TUIFrame

\* case aiResponseMsg: ProcessInput has returned.  loading is cleared; after
\* a response without error the auto-save goroutine is started.
aiResponseMsg ==
    /\ \E e \in BagToSet(running), ok \in BOOLEAN :
          /\ e.kind = "ai"
          /\ e.sess # 0
          /\ loading' = FALSE
          /\ running' = IF ok /\ autoSave /\ mSession # 0
                        THEN Started(Without(running, e), "autosave")
                        ELSE Without(running, e)
    /\ UNCHANGED <<screen, configStep, wizardStep, focusPanel, inputValue,
                   mProvider, mSession, sessionsMade, savesListed>>
    /\ TUIFrame

\* case saveCompleteMsg
saveCompleteMsg ==
    /\ \E e \in BagToSet(running) :
          /\ e.kind = "save"
          /\ e.sess # 0
          /\ running' = Without(running, e)
    /\ loading' = FALSE
    /\ UNCHANGED <<screen, configStep, wizardStep, focusPanel, inputValue,
                   mProvider, mSession, sessionsMade, savesListed>>
    /\ TUIFrame

\* case loadCompleteMsg: loading is cleared; a game that was read becomes
\* the session of a new orchestrator and the game screen is shown.
loadCompleteMsg ==
    /\ \E e \in BagToSet(running) :
          /\ e.kind = "load"
          /\ running' = Without(running, e)
    /\ loading' = FALSE
    /\ \/ UNCHANGED <<screen, focusPanel, mSession, sessionsMade>>  \* err
       \/ /\ sessionsMade < MaxSessions
          /\ sessionsMade' = sessionsMade + 1
          /\ mSession' = sessionsMade + 1
          /\ screen' = "Game"
          /\ focusPanel' = FocusInput
    /\ UNCHANGED <<configStep, wizardStep, inputValue, mProvider,
                   savesListed>>
    /\ TUIFrame

\* The auto-save goroutine returns from storage.SaveGame.
AutoSaveEnds ==
    /\ \E e \in BagToSet(running) :
          /\ e.kind = "autosave"
          /\ e.sess # 0
          /\ running' = Without(running, e)
    /\ UNCHANGED <<screen, configStep, wizardStep, focusPanel, inputValue,
                   loading, mProvider, mSession, sessionsMade, savesListed>>
    /\ TUIFrame

NextTUI ==
    \/ BootEnds
    \/ updateConfig
    \/ updateMenu
    \/ updateWizard
    \/ updateGame
    \/ updateSaves
    \/ CommandRuns
    \/ aiResponseMsg
    \/ saveCompleteMsg
    \/ loadCompleteMsg
    \/ AutoSaveEnds

SpecTUI == InitTUI /\ [][NextTUI]_vars

(***************************************************************************)
(* Properties of one ProcessInput call.                                    *)
(***************************************************************************)
HasToolCalls(resp) == Len(resp.ToolCalls) > 0

RECURSIVE SumTokens(_)
SumTokens(rs) ==
    IF rs = <<>> THEN 0 ELSE Head(rs).Usage.TotalTokens + SumTokens(Tail(rs))

RECURSIVE SumLatency(_)
SumLatency(rs) == IF rs = <<>> THEN 0 ELSE Head(rs).Latency + SumLatency(Tail(rs))

\* The tool calls of a sequence of replies, in the order they were asked.
RECURSIVE CallsOf(_)
CallsOf(rs) == IF rs = <<>> THEN <<>> ELSE Head(rs).ToolCalls \o CallsOf(Tail(rs))

\* The call has returned / has returned because provider.Chat failed: a Chat
\* call was made that no reply answers.
Returned   == pc = "done"
ChatFailed == pc = "done" /\ chatCalls = Len(replies) + 1

IterationLimitHit ==
    pc = "done" /\ response.Error = "maximum tool iterations reached"

\* The conversation the call found, with the given messages appended and
\* the oldest evicted beyond the cap of 50.
ConversationPlus(msgs) ==
    LET full == sessionAtStart.State.Conversation.Messages \o msgs
    IN  IF Len(full) > 50 THEN SubSeq(full, Len(full) - 49, Len(full)) ELSE full

UserMessage == [Role |-> "user", Content |-> input, ToolCallID |-> ""]

AssistantMessage(text) == [Role |-> "assistant", Content |-> text, ToolCallID |-> ""]

\* Character, world, event log and modified flag are as the call found them.
GameStateUntouched ==
    /\ session.State.Character = sessionAtStart.State.Character
    /\ session.State.World = sessionAtStart.State.World
    /\ session.State.EventLog = sessionAtStart.State.EventLog
    /\ session.IsModified = sessionAtStart.IsModified

\* C1: one ProcessInput call makes at most 5 backend calls and then
\* returns; it returns the iteration-limit error exactly when all 5 replies
\* contained tool calls.
C1_AtMostFiveRoundTrips ==
    /\ chatCalls <= 5
    /\ Len(replies) <= 5
    /\ pc = "chat" => chatCalls = Len(replies) + 1
    /\ Len(replies) = 5 => pc = "done"
    /\ Returned =>
          (response.Error = "maximum tool iterations reached"
             <=> (Len(replies) = 5 /\ \A i \in 1..5 : HasToolCalls(replies[i])))

C1_Witness == IterationLimitHit /\ chatCalls = 5

\* C2: when a turn ends with the iteration-limit error, TokensUsed and
\* LatencyMs are the sums over all 5 backend replies of the turn.
C2_LimitKeepsTotals ==
    IterationLimitHit =>
        /\ Len(replies) = 5
        /\ response.TokensUsed = SumTokens(replies)
        /\ response.LatencyMs = SumLatency(replies)

C2_Witness ==
    IterationLimitHit /\ response.TokensUsed = 250 /\ response.LatencyMs = 1000

\* C3: a turn ends successfully exactly at the first reply without tool
\* calls (round k, 1 <= k <= 5): one assistant message with that reply's text
\* is appended, the session is marked modified, and the text is returned as
\* Narrative with no error and the totals of rounds 1..k; a backend that
\* never emits tool calls is called exactly once.
C3_SuccessAtFirstNarrative ==
    /\ pc = "chat" => \A i \in 1..Len(replies) : HasToolCalls(replies[i])
    /\ (Returned /\ replies # <<>> /\ ~HasToolCalls(replies[Len(replies)])) =>
          LET k    == Len(replies)
              text == replies[k].Content
          IN  /\ k \in 1..5
              /\ \A i \in 1..(k - 1) : HasToolCalls(replies[i])
              /\ chatCalls = k
              /\ response.Error = ""
              /\ response.Narrative = text
              /\ response.TokensUsed = SumTokens(replies)
              /\ response.LatencyMs = SumLatency(replies)
              /\ session.IsModified
              /\ session.State.Conversation.Messages =
                     ConversationPlus(<<UserMessage, AssistantMessage(text)>>)
    /\ (Returned /\ response.Error = "") =>
          (replies # <<>> /\ ~HasToolCalls(replies[Len(replies)]))

C3_Witness ==
    /\ Returned /\ response.Error = "" /\ Len(replies) = 3
    /\ response.Narrative = "The door creaks open."

\* C4 as claimed: if a backend call fails, the call returns with an error
\* wrapping the backend error, records no assistant message, and leaves the
\* session with no mutation beyond the appended user message.
C4_AsClaimed ==
    ChatFailed =>
        /\ \E err \in BackendErrors :
               response.Error = "AI request failed: " \o err
        /\ session.State.Conversation.Messages = ConversationPlus(<<UserMessage>>)
        /\ GameStateUntouched

\* C4 as amended: if a backend call fails, the call returns at once with an
\* error wrapping the backend error and records no assistant message; the
\* session keeps the appended user message and whatever the successful tool
\* calls of earlier rounds of the turn did to it, and nothing else (nothing
\* beyond the user message when no tool call had succeeded).
C4_ChatFailureLeavesSession ==
    ChatFailed =>
        /\ \E err \in BackendErrors :
               response.Error = "AI request failed: " \o err
        /\ response.Narrative = ""
        /\ session.State.Conversation.Messages = ConversationPlus(<<UserMessage>>)
        /\ (\A i \in 1..Len(results) : results[i].Error # "") => GameStateUntouched

C4_Witness ==
    /\ ChatFailed /\ Len(replies) = 2
    /\ \A i \in 1..Len(results) : results[i].Error # ""
    /\ results # <<>>

\* C5 as claimed: after every ProcessInput call, whatever its outcome
\* (success, backend failure, iteration limit, no provider configured), the
\* user's text has been appended to the conversation as a user message.
C5_AsClaimed ==
    Returned =>
        \E i \in 1..Len(session.State.Conversation.Messages) :
            /\ session.State.Conversation.Messages[i] = UserMessage
            /\ i >= Len(session.State.Conversation.Messages) - 1

\* C5 as amended: after every ProcessInput call on an orchestrator that has
\* a provider, whatever its outcome (success, backend failure, iteration
\* limit), the user's text has been appended to the conversation as a user
\* message; a call on an orchestrator without a provider returns the
\* "no AI provider configured" error and appends nothing.
C5_UserMessageKept ==
    Returned =>
        LET msgs == session.State.Conversation.Messages
        IN  IF provider = "none"
            THEN /\ response.Error = "no AI provider configured"
                 /\ session = sessionAtStart
            ELSE /\ msgs # <<>>
                 /\ IF response.Error = ""
                    THEN Len(msgs) >= 2 /\ msgs[Len(msgs) - 1] = UserMessage
                    ELSE msgs[Len(msgs)] = UserMessage

C5_Witness ==
    /\ IterationLimitHit
    /\ provider = "backend"
    /\ session.State.Conversation.Messages[
           Len(session.State.Conversation.Messages)] = UserMessage
    /\ Len(sessionAtStart.State.Conversation.Messages) = 50

\* What the outgoing message list must have gained for the tool calls of
\* the given replies, the i-th call being answered by results[base + i].
ToolMessageFor(call, result) ==
    [Role |-> "tool",
     Content |-> IF result.Error # "" THEN "Error: " \o result.Error
                                      ELSE result.Content,
     ToolCalls |-> <<>>,
     ToolCallID |-> call.ID]

RECURSIVE ExpectedMessages(_, _)
ExpectedMessages(rs, base) ==
    IF rs = <<>> \/ ~HasToolCalls(Head(rs)) THEN <<>>
    ELSE LET calls == Head(rs).ToolCalls
         IN  <<[Role |-> "assistant", Content |-> Head(rs).Content,
                ToolCalls |-> calls, ToolCallID |-> ""]>>
             \o [j \in 1..Len(calls) |->
                    ToolMessageFor(calls[j], results[base + j])]
             \o ExpectedMessages(Tail(rs), base + Len(calls))

\* C6: a tool call that returns an error never aborts the turn: every tool
\* call of a reply is executed in reply order even after an earlier one
\* failed, and before the next backend call the outgoing message list gains
\* the assistant tool-call message followed by exactly one tool message per
\* call, in order, carrying the call's id and, on failure, the error text
\* prefixed with "Error: ".
C6_ToolErrorsDoNotAbort ==
    pc \in {"chat", "done"} /\ provider # "none" =>
        LET calls    == CallsOf(replies)
            expected == ExpectedMessages(replies, 0)
            prefix   == 1 + Len(ConversationPlus(<<UserMessage>>))
        IN  /\ Len(results) = Len(calls)
            /\ \A i \in 1..Len(calls) : results[i].ToolCallID = calls[i].ID
            /\ Len(reqMessages) = prefix + Len(expected)
            /\ SubSeq(reqMessages, prefix + 1, Len(reqMessages)) = expected
            /\ (replies # <<>> /\ HasToolCalls(replies[Len(replies)])
                  /\ Len(replies) < 5) => (pc = "chat" \/ ChatFailed)

C6_Witness ==
    /\ pc = "chat"
    /\ Len(results) = 2
    /\ results[1].Error # "" /\ results[2].Error = ""
    /\ reqMessages[Len(reqMessages) - 1].Content
           = "Error: Missing or invalid 'delta' parameter"
    /\ reqMessages[Len(reqMessages)].ToolCallID = "call_3"

\* C7: if the backend call of round k (2 <= k <= 5) fails, no tool is
\* executed for round k, and every mutation and event applied by tools in
\* rounds 1..k-1 of the turn remains applied.
C7_EarlierRoundsStay ==
    (ChatFailed /\ Len(replies) >= 1) =>
        /\ Len(results) = Len(CallsOf(replies))
        /\ session = sessionAfterRound

C7_Witness ==
    /\ ChatFailed /\ Len(replies) = 2
    /\ session.State.Character # sessionAtStart.State.Character
    /\ Len(session.State.EventLog.Events)
           > Len(sessionAtStart.State.EventLog.Events)

\* C8 as claimed: each tool call's result is appended to the session's
\* conversation as a tool-role message, so that after a turn in which tools
\* were called the conversation holds the tool messages of that turn.
C8_AsClaimed ==
    Returned =>
        \A k \in 1..Len(results) :
            \E i \in 1..Len(session.State.Conversation.Messages) :
                /\ session.State.Conversation.Messages[i].Role = "tool"
                /\ session.State.Conversation.Messages[i].ToolCallID
                       = results[k].ToolCallID

\* The ProcessInput calls in flight on session s.
TurnsInFlight(s) == CopiesIn(Background("ai", s), running)

\* C9: in the TUI at most one ProcessInput call is in flight for a session at
\* any time, under every interleaving of key presses and completion
\* messages.  m.loading is the only guard: it is one flag for all kinds of
\* commands, only the game screen consults it, and any completion message
\* clears it, so a load started from the list of saved games lets a second
\* turn start while the first has not returned.
C9_AsClaimed == \A s \in 1..MaxSessions : TurnsInFlight(s) <= 1

\* C10: starting from a character with 0 <= CurrentHP <= MaxHP and
\* TempHP >= 0, after any sequence of update_hp calls, whatever the sign and
\* size of their deltas, 0 <= CurrentHP <= MaxHP and TempHP >= 0 still hold.
\* TakeDamage negates and subtracts in machine integers, so this fails for
\* the most negative delta on a character holding temporary hit points.
C10_AsClaimed ==
    LET c == session.State.Character
    IN  /\ 0 <= c.CurrentHP
        /\ c.CurrentHP <= c.MaxHP
        /\ c.TempHP >= 0

(***************************************************************************)
(* The last tool call seen from outside: the character before and after,   *)
(* and the arguments as sent.                                              *)
(***************************************************************************)
CharBefore == sessionBefore.State.Character
CharAfter  == session.State.Character

\* The last step was a call of the named tool that answered without error.
Succeeded(name) ==
    /\ toolSteps > 0
    /\ lastCall.Name = name
    /\ lastResult.Error = ""

\* The last step was a call that answered with an error.
Failed == toolSteps > 0 /\ lastResult.Error # ""

\* The integer sent under key in the last call.
LastInt(key) == IntOfFloat(lastCall.Arguments.fields[key].n)

Max(a, b) == IF a >= b THEN a ELSE b
Min(a, b) == IF a <= b THEN a ELSE b

\* C11: update_hp with a negative delta -d on a character holding TempHP
\* t > 0 takes the damage from the temporary hit points first: if d <= t,
\* TempHP becomes t - d and CurrentHP is unchanged; otherwise TempHP becomes
\* 0 and CurrentHP drops by d - t, floored at 0.  A positive delta raises
\* CurrentHP by delta, capped at MaxHP, and never changes TempHP.  The
\* handler negates the delta in machine integers, so for the most negative
\* delta the damage is itself negative and is added to TempHP.
C11_AsClaimed ==
    Succeeded("update_hp") =>
        LET delta == LastInt("delta")
            d     == -delta
            t     == CharBefore.TempHP
        IN  /\ (delta < 0 /\ t > 0 /\ d <= t) =>
                   /\ CharAfter.TempHP = t - d
                   /\ CharAfter.CurrentHP = CharBefore.CurrentHP
            /\ (delta < 0 /\ t > 0 /\ d > t) =>
                   /\ CharAfter.TempHP = 0
                   /\ CharAfter.CurrentHP =
                          Max(0, CharBefore.CurrentHP - (d - t))
            /\ delta > 0 =>
                   /\ CharAfter.CurrentHP =
                          Min(CharBefore.MaxHP, CharBefore.CurrentHP + delta)
                   /\ CharAfter.TempHP = CharBefore.TempHP

\* The last call was remove_item naming an item.
RemoveItemCalled ==
    /\ toolSteps > 0
    /\ lastCall.Name = "remove_item"
    /\ lastCall.Arguments.valid
    /\ IsString(lastCall.Arguments.fields, "item")

\* C12: remove_item fails with an error outcome, and leaves the inventory
\* unchanged, both when the named item is absent and when its stack holds
\* fewer than the requested quantity; on success it decrements the stack,
\* removing it when the quantity reaches zero.  Character.RemoveItem treats
\* a stack that is too small like one that is exactly used up: it removes
\* the stack and reports success.
C12_AsClaimed ==
    RemoveItemCalled =>
        LET name == lastCall.Arguments.fields["item"].s
            q    == QuantityArg(lastCall.Arguments.fields)
            inv  == CharBefore.Inventory
            i    == ItemIndex(inv, name)
        IN  /\ i = 0 =>
                   /\ lastResult.Error # ""
                   /\ CharAfter.Inventory = inv
            /\ (i # 0 /\ inv[i].Quantity < q) =>
                   /\ lastResult.Error # ""
                   /\ CharAfter.Inventory = inv
            /\ (i # 0 /\ lastResult.Error = "") =>
                   CharAfter.Inventory =
                       IF inv[i].Quantity - q = 0
                       THEN SubSeq(inv, 1, i - 1) \o SubSeq(inv, i + 1, Len(inv))
                       ELSE [inv EXCEPT ![i].Quantity = @ - q]

\* No two entries of the inventory share a name.
NoDuplicateNames(inv) ==
    \A i, j \in 1..Len(inv) : inv[i].Name = inv[j].Name => i = j

\* C13: add_item merges by name: adding an item whose name is already in the
\* inventory increases that entry's quantity by the added amount instead of
\* creating a new entry, so after any sequence of add_item and remove_item
\* calls no two inventory entries share a name.  The entries stay distinct,
\* but the sum is a machine integer: two large additions to one stack leave
\* a quantity that is not the earlier one plus the added amount.
C13_AsClaimed ==
    /\ NoDuplicateNames(CharAfter.Inventory)
    /\ Succeeded("add_item") =>
           LET name == lastCall.Arguments.fields["item"].s
               q    == QuantityArg(lastCall.Arguments.fields)
               inv  == CharBefore.Inventory
               i    == ItemIndex(inv, name)
           IN  i # 0 =>
                   /\ Len(CharAfter.Inventory) = Len(inv)
                   /\ CharAfter.Inventory[i].Quantity = inv[i].Quantity + q

\* The last call carried arguments that decode.
Decodable == toolSteps > 0 /\ lastCall.Arguments.valid

UnknownToolError == lastResult.Error = "Unknown tool: " \o lastCall.Name

\* C14: dispatch by name is exact over the catalogue: for a call with
\* decodable arguments, Execute answers the 'Unknown tool' error if and only
\* if the name is not one of the tools of AvailableTools; an unknown name
\* changes nothing in the session and is answered like any other call.
C14_DispatchExact ==
    Decodable =>
        /\ UnknownToolError <=> lastCall.Name \notin ToolNames
        /\ lastCall.Name \notin ToolNames =>
               /\ session = sessionBefore
               /\ lastResult.ToolCallID = lastCall.ID
               /\ lastResult.Content = ""

C14_Witness ==
    /\ Decodable
    /\ lastCall.Name = "cast_spell"
    /\ lastResult.Error = "Unknown tool: cast_spell"
    /\ session = sessionBefore

\* The arguments each tool is said to require.
RequiredArgs(name) ==
    CASE name = "roll_dice"     -> {"notation"}
      [] name = "update_hp"     -> {"delta", "reason"}
      [] name = "add_item"      -> {"item"}
      [] name = "remove_item"   -> {"item"}
      [] name = "set_condition" -> {"condition", "add"}
      [] name = "update_gold"   -> {"delta", "reason"}
      [] name = "award_xp"      -> {"amount"}
      [] name = "set_location"  -> {"name", "description"}
      [] name = "add_quest"     -> {"id", "name"}
      [] name = "skill_check"   -> {"skill", "dc"}
      [] name = "saving_throw"  -> {"ability", "dc"}
      [] OTHER -> {}

\* The field is missing from the last call or holds a value of another type
\* than the tool expects.
Offending(f) ==
    LET args == lastCall.Arguments.fields
    IN  \/ f \notin DOMAIN args
        \/ args[f].t # GoodArgs(lastCall.Name)[f].t

\* C15: for every tool and every required argument of that tool (notation;
\* delta and reason; item; condition and add; amount; name and description;
\* id and name; skill and dc; ability and dc), a call whose payload does not
\* decode, or holds a wrongly typed value or lacks the field, is answered by
\* an error that names the field.  The handlers of update_hp, update_gold
\* and set_location read reason and description with a default instead.
C15_AsClaimed ==
    /\ (toolSteps > 0 /\ ~lastCall.Arguments.valid) => lastResult.Error # ""
    /\ (Decodable /\ lastCall.Name \in HandlerNames) =>
           \A f \in RequiredArgs(lastCall.Name) :
               Offending(f) =>
                   lastResult.Error =
                       "Missing or invalid '" \o f \o "' parameter"

\* C16: every outcome Execute returns carries the id of the call it answers
\* and has exactly one of Content and Error non-empty, whatever the tool name
\* and the payload.
C16_OutcomeShape ==
    toolSteps > 0 =>
        /\ lastResult.ToolCallID = lastCall.ID
        /\ (lastResult.Content # "") # (lastResult.Error # "")

C16_Witness ==
    /\ toolSteps > 0
    /\ lastCall.Name = "roll_dice"
    /\ lastResult.ToolCallID = "call_1"
    /\ lastResult.Content = ""
    /\ lastResult.Error = "number of dice must be between 1 and 100"

\* The tools that change the character or the world.
MutatingTools ==
    {"update_hp", "add_item", "remove_item", "set_condition", "update_gold",
     "award_xp", "set_location", "add_quest"}

\* C17: every successful execution of a tool that changes the state
\* (update_hp, add_item, remove_item, set_condition, update_gold, award_xp,
\* set_location, add_quest) leaves the session's modified flag set, also
\* when the operation changed nothing, such as removing a condition that was
\* not present.
C17_MutatingToolsMarkModified ==
    \A name \in MutatingTools : Succeeded(name) => session.IsModified

\* A condition that was not there is removed from a session not yet marked:
\* the character is as before and the flag is set.
C17_Witness ==
    /\ Succeeded("set_condition")
    /\ ~lastCall.Arguments.fields["add"].b
    /\ \A i \in 1..Len(CharBefore.Conditions) :
           CharBefore.Conditions[i] # lastCall.Arguments.fields["condition"].s
    /\ CharAfter = CharBefore
    /\ ~sessionBefore.IsModified
    /\ session.IsModified

\* The event the last call logged.
LastEvent ==
    session.State.EventLog.Events[Len(session.State.EventLog.Events)]

\* floor((score - 10) / 2)
FloorModifier(score) == (score - 10) \div 2

\* C18: the ability modifier is floor((score - 10) / 2) for every integer
\* score, odd scores below 10 included, and the skill bonus is that modifier
\* plus twice the proficiency bonus for an expert, plus the proficiency bonus
\* for one merely proficient, plus nothing otherwise.  Seen in the bonus a
\* check reports.  Modifier divides with Go's /, which rounds toward zero:
\* below 10 an odd score gets the modifier of the even score above it.
C18_AsClaimed ==
    /\ Succeeded("saving_throw") =>
           LastEvent.C =
               FloorModifier(CharBefore.Abilities[
                   ToUpper(lastCall.Arguments.fields["ability"].s)])
    /\ Succeeded("skill_check") =>
           LET i == SkillIndex(CharBefore.Skills,
                               lastCall.Arguments.fields["skill"].s)
               sk == CharBefore.Skills[i]
           IN  i # 0 =>
                   LastEvent.C =
                       FloorModifier(CharBefore.Abilities[sk.Ability])
                           + (IF sk.Expert THEN 2 * CharBefore.ProficiencyBonus
                              ELSE IF sk.Proficient
                              THEN CharBefore.ProficiencyBonus
                              ELSE 0)

\* C19: starting from gold >= 0, after any sequence of update_gold calls the
\* gold is never negative, and each call sets it to max(0, gold + delta) and
\* reports that total in its outcome and in its event.  The gold never goes
\* below zero, but the sum is a machine integer: a gain that overflows wraps
\* to a negative number and empties the purse.
C19_AsClaimed ==
    /\ CharAfter.Gold >= 0
    /\ Succeeded("update_gold") =>
           LET total == Max(0, CharBefore.Gold + LastInt("delta"))
           IN  /\ CharAfter.Gold = total
               /\ LastEvent.Type = "gold_change"
               /\ LastEvent.B = total
               /\ lastResult.Content =
                      "Gold changed by " \o ToString(LastInt("delta"))
                          \o " (trade). Total: " \o ToString(total)

\* cond is in the list.
HasCondition(conds, cond) == \E i \in 1..Len(conds) : conds[i] = cond

\* C20: set_condition is idempotent on add and safe on remove: after any
\* sequence of calls the list of conditions holds no condition twice; adding
\* a condition already there leaves the list unchanged; removing one that is
\* not there leaves the list unchanged and is answered as a success.
C20_ConditionsIdempotent ==
    /\ \A i, j \in 1..Len(CharAfter.Conditions) :
           CharAfter.Conditions[i] = CharAfter.Conditions[j] => i = j
    /\ (toolSteps > 0 /\ lastCall.Name = "set_condition") =>
           LET cond == lastCall.Arguments.fields["condition"].s
               add  == lastCall.Arguments.fields["add"].b
               had  == HasCondition(CharBefore.Conditions, cond)
           IN  /\ lastResult.Error = ""
               /\ (add /\ had) => CharAfter.Conditions = CharBefore.Conditions
               /\ (~add /\ ~had) =>
                      CharAfter.Conditions = CharBefore.Conditions
               /\ HasCondition(CharAfter.Conditions, cond) <=> add

\* A condition the character already had is added a second time.
C20_Witness ==
    /\ Succeeded("set_condition")
    /\ lastCall.Arguments.fields["add"].b
    /\ HasCondition(CharBefore.Conditions,
                    lastCall.Arguments.fields["condition"].s)
    /\ CharAfter.Conditions = CharBefore.Conditions
    /\ Len(CharAfter.Conditions) = 2

\* The quests before and after the last call.
QuestsBefore == sessionBefore.State.World.Quests
QuestsAfter  == session.State.World.Quests

\* The index of the first quest with the given id, 0 if none.
QuestIndex(quests, id) ==
    IF \E i \in 1..Len(quests) : quests[i].ID = id
    THEN CHOOSE i \in 1..Len(quests) :
            /\ quests[i].ID = id
            /\ \A j \in 1..(i - 1) : quests[j].ID # id
    ELSE 0

\* C21: add_quest upserts by id: if a quest with the given id exists it is
\* updated in place and a quest-update event is logged; otherwise a new
\* quest, its status defaulting to "active", is appended and a quest-add
\* event is logged; after any sequence of add_quest calls no two quests share
\* an id.
C21_AddQuestUpserts ==
    /\ \A i, j \in 1..Len(QuestsAfter) :
           QuestsAfter[i].ID = QuestsAfter[j].ID => i = j
    /\ Succeeded("add_quest") =>
           LET args   == lastCall.Arguments.fields
               given  == StringOr(args, "status", "")
               status == IF given = "" THEN "active" ELSE given
               i      == QuestIndex(QuestsBefore, args["id"].s)
           IN  IF i # 0
               THEN /\ QuestsAfter = [QuestsBefore EXCEPT ![i].Status = status]
                    /\ LastEvent.Type = "quest_update"
               ELSE /\ QuestsAfter =
                           Append(QuestsBefore,
                                  Quest(args["id"].s, args["name"].s,
                                        StringOr(args, "description", ""),
                                        status))
                    /\ LastEvent.Type = "quest_add"

\* The quest under way is set to completed: one quest as before, its status
\* changed.
C21_Witness ==
    /\ Succeeded("add_quest")
    /\ QuestIndex(QuestsBefore, lastCall.Arguments.fields["id"].s) = 1
    /\ QuestsBefore[1].Status = "active"
    /\ QuestsAfter[1].Status = "completed"
    /\ Len(QuestsAfter) = Len(QuestsBefore)
    /\ LastEvent.Type = "quest_update"

\* The last n entries of s, all of s if it has fewer.
MostRecent(s, n) ==
    IF Len(s) > n THEN [i \in 1..n |-> s[Len(s) - n + i]] ELSE s

\* C22: after any sequence of appends the conversation holds at most its cap
\* (50 unless another is given) and the event log at most its cap (100
\* unless another is given) entries, and what they hold is exactly the most
\* recently appended entries in the order of their appending.
C22_LogsKeepMostRecent ==
    LET conv == session.State.Conversation
        log  == session.State.EventLog
    IN  /\ conv.MaxSize > 0 /\ log.MaxSize > 0
        /\ Len(conv.Messages) <= conv.MaxSize
        /\ Len(log.Events) <= log.MaxSize
        /\ conv.Messages = MostRecent(appended.msgs, conv.MaxSize)
        /\ log.Events = MostRecent(appended.events, log.MaxSize)

\* Both logs of a new game have been filled past their caps: each has lost
\* its oldest entry.
C22_Witness ==
    LET conv == session.State.Conversation
        log  == session.State.EventLog
    IN  /\ conv.MaxSize = 50 /\ log.MaxSize = 100
        /\ Len(appended.msgs) = 51 /\ Len(appended.events) = 101
        /\ Len(conv.Messages) = 50 /\ Len(log.Events) = 100
        /\ conv.Messages[1] = NthMessage(2)
        /\ log.Events[100] = NthEvent(101)

\* The operations of the dice engine that return a rolled DiceRoll.
RollOperations ==
    {"DiceRoll.Roll", "RollDice", "Roll", "RollD20", "RollAbilityScore"}

InSides(dr) == \A i \in 1..Len(dr.Rolls) : dr.Rolls[i] \in 1..dr.DiceSides

\* C23: every DiceRoll a roll operation returns has as many recorded rolls
\* as its dice count, each recorded roll between 1 and its sides, and a
\* total that is the sum of the recorded rolls plus the modifier.
C23_AsClaimed ==
    (dice.ok /\ dice.op \in RollOperations) =>
        /\ Len(dice.roll.Rolls) = dice.roll.NumDice
        /\ InSides(dice.roll)
        /\ dice.roll.Total = SumSeq(dice.roll.Rolls) + dice.roll.Modifier

\* The text without the blanks around it, in lower case.
Trimmed(chars) ==
    LET inked == {i \in 1..Len(chars) : chars[i] # " "}
        first == CHOOSE i \in inked : \A j \in inked : i <= j
        last  == CHOOSE i \in inked : \A j \in inked : i >= j
    IN  IF inked = {} THEN <<>>
        ELSE [i \in 1..(last - first + 1) |->
                 IF chars[first + i - 1] = "D" THEN "d"
                 ELSE chars[first + i - 1]]

AllDigits(t) == \A i \in 1..Len(t) : t[i] \in DigitChars

\* A run of digits whose value is between low and high (which have at most
\* four digits).
Between(t, low, high) ==
    /\ Len(StripZeros(t)) <= 4
    /\ DigitsValue(t) >= low
    /\ DigitsValue(t) <= high

\* t is [count]d<sides>[+|-modifier] with the letter d at position p and the
\* sides ending at position q.
HasShape(t, p, q) ==
    /\ AllDigits(SubSeq(t, 1, p - 1))
    /\ t[p] = "d"
    /\ q > p
    /\ AllDigits(SubSeq(t, p + 1, q))
    /\ \/ q = Len(t)
       \/ /\ q + 1 < Len(t)
          /\ t[q + 1] \in {"+", "-"}
          /\ AllDigits(SubSeq(t, q + 2, Len(t)))

\* t has that shape, a count (when there is one) in [1,100] and sides in
\* [1,1000].
Accepted(t, p, q) ==
    /\ HasShape(t, p, q)
    /\ p = 1 \/ Between(SubSeq(t, 1, p - 1), 1, 100)
    /\ Between(SubSeq(t, p + 1, q), 1, 1000)

\* The modifier of such a text, when there is one, is an int.
ModifierFits(t, q) ==
    q = Len(t) \/ AtoiInRange(SubSeq(t, q + 2, Len(t)), t[q + 1] = "-")

\* What ParseDice is to return for such a text.
Expected(t, p, q) ==
    [NumDice   |-> IF p = 1 THEN 1 ELSE DigitsValue(SubSeq(t, 1, p - 1)),
     DiceSides |-> DigitsValue(SubSeq(t, p + 1, q)),
     Modifier  |-> IF q = Len(t) THEN 0
                   ELSE IF t[q + 1] = "-"
                   THEN 0 - DigitsValue(SubSeq(t, q + 2, Len(t)))
                   ELSE DigitsValue(SubSeq(t, q + 2, Len(t)))]

Positions(t) == {pq \in (1..Len(t)) \X (1..Len(t)) : Accepted(t, pq[1], pq[2])}

ParsedAs(roll, e) ==
    /\ roll.NumDice = e.NumDice
    /\ roll.DiceSides = e.DiceSides
    /\ roll.Modifier = e.Modifier

\* C24 as stated: ParseDice accepts exactly the texts [count]d<sides>
\* [+|-modifier] (in either case, blanks around them trimmed) with a count
\* in [1,100] (1 when omitted) and sides in [1,1000], returning that count,
\* those sides and the signed modifier, and rejects every other text.
C24_AsClaimed ==
    dice.op = "ParseDice" =>
        LET t == Trimmed(dice.input)
        IN  /\ dice.ok <=> Positions(t) # {}
            /\ dice.ok =>
                   \A pq \in Positions(t) :
                       ParsedAs(dice.roll, Expected(t, pq[1], pq[2]))

\* C24, amended: ParseDice accepts exactly those texts whose modifier, when
\* there is one, is within the range of an int, returning the count, the
\* sides and the signed modifier; it rejects every other text, among them
\* a text of that shape whose modifier is outside the range of an int.
C24_ParseDiceAccepts ==
    dice.op = "ParseDice" =>
        LET t == Trimmed(dice.input)
        IN  /\ dice.ok <=>
                   \E pq \in Positions(t) : ModifierFits(t, pq[2])
            /\ dice.ok =>
                   \A pq \in Positions(t) :
                       ParsedAs(dice.roll, Expected(t, pq[1], pq[2]))
            /\ ~dice.ok => dice.err # ""

\* A text with leading zeros, a count, sides and a modifier has been parsed
\* and accepted.
C24_Witness ==
    /\ dice.op = "ParseDice"
    /\ dice.input = <<"0", "2", "d", "0", "6", "+", "0", "0", "7">>
    /\ dice.ok
    /\ dice.roll.NumDice = 2 /\ dice.roll.DiceSides = 6
    /\ dice.roll.Modifier = 7

\* The die at position k shows the least of the dice thrown and no earlier
\* die shows as little.
FirstLowest(raw, k) ==
    /\ \A j \in 1..Len(raw) : raw[k] <= raw[j]
    /\ \A j \in 1..(k - 1) : raw[j] > raw[k]

\* C25: RollAbilityScore throws four six-sided dice, drops exactly one die
\* showing the least value (the first such die in the order thrown), keeps
\* the other three in the order thrown and returns their sum as the total,
\* which is between 3 and 18.
C25_DropsFirstLowest ==
    dice.op = "RollAbilityScore" =>
        /\ Len(dice.raw) = 4
        /\ \A i \in 1..4 : dice.raw[i] \in 1..6
        /\ \E k \in 1..4 :
               /\ FirstLowest(dice.raw, k)
               /\ Len(dice.roll.Rolls) = 3
               /\ \A i \in 1..3 :
                      dice.roll.Rolls[i] = dice.raw[IF i < k THEN i ELSE i + 1]
        /\ dice.roll.Total =
               dice.roll.Rolls[1] + dice.roll.Rolls[2] + dice.roll.Rolls[3]
        /\ dice.roll.Total \in 3..18

\* The second and the fourth die both show the least value: the second is
\* dropped and the fourth kept.
C25_Witness ==
    /\ dice.op = "RollAbilityScore"
    /\ dice.raw = <<2, 1, 6, 1>>
    /\ dice.roll.Rolls = <<2, 6, 1>>
    /\ dice.roll.Total = 9

\* Two Rollers of the same seed have returned the same for as long as they
\* were asked the same.
SameSeedSameRolls ==
    \A n \in 0..MaxSeededRolls :
        ( /\ rollers[1].made /\ rollers[2].made
          /\ rollers[1].seed = rollers[2].seed
          /\ n <= Len(rollers[1].asked) /\ n <= Len(rollers[2].asked)
          /\ SubSeq(rollers[1].asked, 1, n) = SubSeq(rollers[2].asked, 1, n) )
        => SubSeq(rollers[1].returned, 1, n) = SubSeq(rollers[2].returned, 1, n)

\* A step that changes a Roller leaves the process-wide generator alone and
\* a step that advances the process-wide generator leaves the Rollers alone.
GeneratorsApart ==
    /\ rollers' # rollers => diceRng' = diceRng
    /\ diceRng' # diceRng => rollers' = rollers

\* C26: two Rollers constructed independently with the same seed return the
\* same results for the same sequence of notations, whatever is rolled with
\* the process-wide generator in between, and rolling with a Roller does
\* not advance the process-wide generator, nor the reverse.
C26_SeededRollersRepeat == []SameSeedSameRolls /\ [][GeneratorsApart]_vars

\* Two Rollers of one seed have each answered the same two notations, the
\* process-wide generator having been used as well.
C26_Witness ==
    /\ rollers[1].made /\ rollers[2].made
    /\ rollers[1].seed = rollers[2].seed
    /\ rollers[1].asked = << <<"1", "d", "2", "0">>, <<"2", "d", "6", "+", "1">> >>
    /\ rollers[2].asked = rollers[1].asked
    /\ rollers[1].returned = rollers[2].returned
    /\ rollers[1].returned[1].ok /\ rollers[1].returned[2].ok
    /\ dice.op = "RollD20"
    /\ diceRng # <<0, 19, 29, 19>> /\ diceRng # <<29, 0, 0, 19>>

\* C27: UpdateMemorySummary changes the stored summary only when the
\* conversation holds at least ten messages and the backend call succeeds;
\* below ten messages it calls no backend and changes nothing; when the
\* backend fails it returns the error and leaves the summary, the
\* conversation, the character and the modified flag as they were.
C27_SummaryOnlyOnSuccess ==
    LET short == Len(sessionAtStart.State.Conversation.Messages) < 10
    IN  pc # "idle" =>
          /\ short => /\ pc = "done"
                      /\ chatCalls = memory.chatsBefore
                      /\ session = sessionAtStart
                      /\ memory.err = ""
          /\ (pc = "done" /\ memory.err # "") =>
                 /\ ~short
                 /\ session = sessionAtStart
          /\ pc \in {"summary", "panic"} => session = sessionAtStart
          /\ session.State.World.MemorySummary #
                 sessionAtStart.State.World.MemorySummary =>
                 /\ ~short
                 /\ pc = "done" /\ memory.err = ""
                 /\ chatCalls = memory.chatsBefore + 1

\* A conversation that has just reached ten messages has been summarised:
\* the stored summary is the backend's and the session is marked modified.
C27_Witness ==
    /\ pc = "done" /\ memory.err = "" /\ memory.calls = 2
    /\ Len(sessionAtStart.State.Conversation.Messages) = 10
    /\ sessionAtStart.State.World.MemorySummary = "The party left the inn."
    /\ ~sessionAtStart.IsModified
    /\ session.State.World.MemorySummary = "The party reached the crypt."
    /\ session.IsModified

\* C28: a call that Execute answers with an error (arguments that do not
\* decode, an unknown tool, a missing or mistyped field, a dice notation the
\* parser rejects, an item the character does not carry, an ability that
\* does not exist) leaves the character, the world, the event log and the
\* modified flag exactly as it found them.
C28_ErrorsChangeNothing ==
    Failed =>
        /\ session.State.Character = sessionBefore.State.Character
        /\ session.State.World = sessionBefore.State.World
        /\ session.State.EventLog = sessionBefore.State.EventLog
        /\ session.IsModified = sessionBefore.IsModified
        /\ session = sessionBefore

\* remove_item has refused an item the character does not carry.
C28_Witness ==
    /\ Failed
    /\ lastCall.Name = "remove_item"
    /\ lastResult.Error = "Item 'lantern' not found in inventory"
    /\ sessionBefore.State.Character.Inventory # <<>>
    /\ session = sessionBefore

\* The kinds of event each tool records.
EventKinds(name) ==
    CASE name = "roll_dice"     -> {"dice_roll"}
      [] name = "update_hp"     -> {"hp_change"}
      [] name = "add_item"      -> {"item_add"}
      [] name = "remove_item"   -> {"item_remove"}
      [] name = "set_condition" -> {"condition_add", "condition_remove"}
      [] name = "update_gold"   -> {"gold_change"}
      [] name = "award_xp"      -> {"xp_gain"}
      [] name = "set_location"  -> {"location_change"}
      [] name = "add_quest"     -> {"quest_add", "quest_update"}
      [] name = "skill_check"   -> {"skill_check"}
      [] name = "saving_throw"  -> {"saving_throw"}
      [] OTHER                  -> {}

\* C29: a call that Execute answers with a success has appended exactly one
\* event to the log, of a kind belonging to its tool; a call answered with
\* an error has appended none.
C29_OneEventPerSuccess ==
    /\ (toolSteps > 0 /\ lastResult.Error = "") =>
           /\ session.State.EventLog =
                  EventLogAdd(sessionBefore.State.EventLog, LastEvent)
           /\ Len(session.State.EventLog.Events) =
                  Len(sessionBefore.State.EventLog.Events) + 1
           /\ LastEvent.Type \in EventKinds(lastCall.Name)
    /\ Failed => session.State.EventLog = sessionBefore.State.EventLog

\* add_quest has updated a quest the world already holds and recorded one
\* quest_update event.
C29_Witness ==
    /\ Succeeded("add_quest")
    /\ LastEvent.Type = "quest_update"
    /\ Len(session.State.EventLog.Events) =
           Len(sessionBefore.State.EventLog.Events) + 1

\* The auto-save goroutines that are reading session s.
AutoSavesInFlight(s) == CopiesIn(Background("autosave", s), running)

\* C30: the auto-save started in the background when a DM response arrives
\* never overlaps a mutation of the same session by a later turn or
\* command: while an auto-save reads a session no ProcessInput call is
\* running on that session.
C30_AsClaimed ==
    \A s \in 1..MaxSessions :
        ~(AutoSavesInFlight(s) > 0 /\ TurnsInFlight(s) > 0)

====
